---- MODULE Spec2Model ----
(***************************************************************************)
(* Model of the incremental competitor discovery and research pipeline of  *)
(* companies/views.py (stream_competitors_research and its helpers) over   *)
(* the persistence adapter of competitor_research/supabase_service.py.     *)
(*                                                                         *)
(* The store is the `companies` table (a sequence of rows, a row's id is   *)
(* its position) and the three time-series tables (`records`).  One run of *)
(* the generator is a walk of `pc`; `frames` is the stream it has yielded. *)
(* Every external call (store, generation capability) may return or raise: *)
(* the outcome is chosen with \E, and `faults` counts the faults injected. *)
(***************************************************************************)
EXTENDS Integers, Sequences, FiniteSets, TLC

\* ------------------------------------------------------------------ bounds

\* Sequential runs of stream_competitors_research in one behaviour.
MaxRuns == 2
\* Longest competitor list a discovery generation output parses to.
MaxCands == 2
\* Faults (calls that raise or return no row) injected in one behaviour.
MaxFaults == 1

\* The records one save_research_data call writes.
MaxItems == 2

\* ---------------------------------------------------------------- universe

AcmeUrl == "https://www.acme.test"
BetaUrl == "https://beta.test"
InputUrls == {AcmeUrl, BetaUrl}

\* Python's None for a missing website_url; no row for a lookup.
NoneUrl == "<None>"
NoRow == 0

\* The competitor lists parse_competitors_response returns are lists of
\* {name, url} with both fields stripped; either may be the empty string.
Candidates ==
  { [name |-> "Acme", url |-> AcmeUrl],
    [name |-> "Beta", url |-> BetaUrl],
    [name |-> "Acme", url |-> BetaUrl],
    [name |-> "Beta", url |-> ""],
    [name |-> "",     url |-> AcmeUrl] }

SeqsUpTo(S, n) == UNION { [1..k -> S] : k \in 0..n }

CompetitorLists == SeqsUpTo(Candidates, MaxCands)

\* What parse_research_response returns for a generation output: None
\* (NoData) or a mapping of the three keys to lists of {value, year, source}.
NoData == [parsed |-> FALSE]
Item2023 == [value |-> 1, year |-> 2023, source |-> "src"]
ResearchOutputs ==
  { NoData,
    [parsed |-> TRUE, networth |-> <<>>, users |-> <<>>, funding |-> <<>>],
    [parsed |-> TRUE, networth |-> <<Item2023>>, users |-> <<>>, funding |-> <<>>] }

SeqToSet(s) == { s[i] : i \in 1..Len(s) }

\* ------------------------------------------------------- persistence adapter

\* urlparse(url).netloc.replace('www.', '').split('.')[0].capitalize()
CompanyNameFromUrl(url) ==
  CASE url = AcmeUrl -> "Acme"
    [] url = BetaUrl -> "Beta"
    [] OTHER -> url

\* select('*').eq('website_url', url).limit(1): the first matching row's id.
get_company_by_url(store, url) ==
  LET hits == { i \in 1..Len(store) : store[i].website_url = url }
  IN IF hits = {} THEN NoRow ELSE CHOOSE i \in hits : \A j \in hits : i <= j

\* select('*').eq('name', name).limit(1): the first matching row's id.
select_company_by_name(store, name) ==
  LET hits == { i \in 1..Len(store) : store[i].name = name }
  IN IF hits = {} THEN NoRow ELSE CHOOSE i \in hits : \A j \in hits : i <= j

\* Faulty variant of get_competitors_by_ids: the in_ filter is missing.
get_competitors_unfiltered(store, ids) == store

\* select('*').in_('id', ids): the stored rows whose id is listed, each once.
get_competitors_by_ids(store, ids) ==
  SelectSeq(store, LAMBDA row : row.id \in SeqToSet(ids))

\* Faulty variant of create_company: the website_url is never stored.
create_company_without_url(store, name, url) ==
  Append(store, [id |-> Len(store) + 1, name |-> name,
                 website_url |-> NoneUrl, competitor_ids |-> <<>>])

\* insert({'name': name[, 'website_url': url]}): url only when truthy.
create_company(store, name, url) ==
  Append(store, [id |-> Len(store) + 1, name |-> name,
                 website_url |-> IF url = "" THEN NoneUrl ELSE url,
                 competitor_ids |-> <<>>])

\* update(kwargs).eq('id', id) with kwargs a subset of {name, website_url}.
update_company(store, id, setName, name, setUrl, url) ==
  [store EXCEPT ![id] = [@ EXCEPT !.name = IF setName THEN name ELSE @,
                                  !.website_url = IF setUrl THEN url ELSE @]]

\* delete().eq('id', id): the row with the id is removed, the other rows keep
\* their ids; no row is removed when none has the id.
delete_company(store, id) == SelectSeq(store, LAMBDA row : row.id # id)

\* Faulty variant of update_company_competitor_ids: the update is not applied.
update_company_competitor_ids_dropped(store, id, ids) == store

\* update({'competitor_ids': ids}).eq('id', id)
update_company_competitor_ids(store, id, ids) ==
  [store EXCEPT ![id].competitor_ids = ids]

\* --------------------------------------------------------- time-series tables

\* The store holds at most one row per (table, company_id, year).
HasRow(recs, table, cid, year) ==
  \E r \in recs : r.table = table /\ r.company_id = cid /\ r.year = year

InsertRow(recs, table, cid, value, year, source) ==
  recs \cup { [table |-> table, company_id |-> cid, year |-> year,
               value |-> value, source |-> source] }

UpdateRow(recs, table, cid, value, year, source) ==
  { IF r.table = table /\ r.company_id = cid /\ r.year = year
      THEN [r EXCEPT !.value = value, !.source = source]
      ELSE r : r \in recs }

\* insert; on a duplicate key (23505) update value and source instead.
create_company_networth(recs, cid, value, year, source) ==
  IF HasRow(recs, "company_networth", cid, year)
    THEN UpdateRow(recs, "company_networth", cid, value, year, source)
    ELSE InsertRow(recs, "company_networth", cid, value, year, source)

create_company_users(recs, cid, value, year, source) ==
  IF HasRow(recs, "company_users", cid, year)
    THEN UpdateRow(recs, "company_users", cid, value, year, source)
    ELSE InsertRow(recs, "company_users", cid, value, year, source)

\* insert only: a duplicate key raises and leaves the table as it was.
create_company_funding(recs, cid, value, year, source) ==
  IF HasRow(recs, "company_funding", cid, year)
    THEN recs
    ELSE InsertRow(recs, "company_funding", cid, value, year, source)

WriteOne(recs, table, cid, item) ==
  CASE table = "company_networth" ->
         create_company_networth(recs, cid, item.value, item.year, item.source)
    [] table = "company_users" ->
         create_company_users(recs, cid, item.value, item.year, item.source)
    [] OTHER ->
         create_company_funding(recs, cid, item.value, item.year, item.source)

RECURSIVE SaveItems(_, _, _, _)
SaveItems(recs, table, cid, items) ==
  IF items = <<>> THEN recs
  ELSE SaveItems(WriteOne(recs, table, cid, Head(items)), table, cid, Tail(items))

ItemCount(data) == Len(data.networth) + Len(data.users) + Len(data.funding)

\* Records are written networth, then users, then funding; a write that
\* raises is logged and skipped (writeFails: the store rejects the writes).
save_research_data(recs, cid, data, writeFails) ==
  IF writeFails THEN recs
  ELSE SaveItems(SaveItems(SaveItems(recs, "company_networth", cid, data.networth),
                           "company_users", cid, data.users),
                 "company_funding", cid, data.funding)

RowsOf(recs, table, cid) == { r \in recs : r.table = table /\ r.company_id = cid }

\* The stored FinancialRecords of a company, or nothing when it has none.
get_company_analysis(recs, cid) ==
  IF \E r \in recs : r.company_id = cid
    THEN [found |-> TRUE,
          networth |-> RowsOf(recs, "company_networth", cid),
          users |-> RowsOf(recs, "company_users", cid),
          funding |-> RowsOf(recs, "company_funding", cid)]
    ELSE [found |-> FALSE]

\* ------------------------------------------------------------ generation

\* Faulty variant of get_text_completion_calls: a call that raises is made again.
get_text_completion_retried(outcome) == IF outcome = "gen_raise" THEN 2 ELSE 1

\* The requests one get_text_completion call sends for its outcome (the text,
\* None, or an exception): chat_completion calls the client once, and logs
\* and re-raises its exception.
get_text_completion_calls(outcome) == 1

\* ------------------------------------------------------------------- frames

StatusFrame(msg) == [type |-> "status", message |-> msg]

FoundExistingFrame(n) ==
  [type |-> "status", message |-> "Found existing company with competitors in database...",
   count |-> n]

StartingResearchFrame(n) ==
  [type |-> "status", message |-> "Starting competitor research...",
   total_competitors |-> n]

\* Faulty variant of CompetitorsListFrame: an empty parse is reported as absent.
CompetitorsListFrameHidingEmpty(n) ==
  IF n = 0 THEN StatusFrame("No competitors found")
  ELSE [type |-> "competitors_list", total |-> n]

CompetitorsListFrame(n) == [type |-> "competitors_list", total |-> n]

CompetitorFrame(entry) == [type |-> "competitor", competitor |-> entry]

\* Faulty variant of ResearchStatusFrame: progress is tagged by the step, not
\* by the event kind.
ResearchStatusFrameTaggedByStep(comp, status) ==
  [type |-> status, competitor_id |-> comp.id, competitor_name |-> comp.name,
   status |-> "research_status"]

ResearchStatusFrame(comp, status) ==
  [type |-> "research_status", competitor_id |-> comp.id,
   competitor_name |-> comp.name, status |-> status]

CompetitorResearchFrame(result) == [type |-> "competitor_research", result |-> result]

\* Faulty variant of CompleteFrame: total_saved counts every entry.
CompleteFrameCountingAll(url, saved, results) ==
  [type |-> "complete", company_url |-> url, total_found |-> Len(saved),
   total_saved |-> Len(saved), research_results |-> results]

CompleteFrame(url, saved, results) ==
  [type |-> "complete", company_url |-> url, total_found |-> Len(saved),
   total_saved |-> Len(SelectSeq(saved, LAMBDA c : "error" \notin DOMAIN c)),
   research_results |-> results]

ErrorFrame(e) == [type |-> "error", error |-> e]

\* What a yield statement hands to the transport for a payload:
\* f"data: {json.dumps(payload)}\n\n".  The variable frames holds the
\* payloads, in the order of the yields.
PushEvent(payload) ==
  [prefix |-> "data: ", json |-> payload, terminator |-> "\n\n"]

\* The saved_competitors entry of a stored row.
SavedCompetitor(row, created) ==
  [id |-> row.id, name |-> row.name,
   url |-> IF row.website_url = NoneUrl THEN "" ELSE row.website_url,
   created |-> created]

\* Faulty variant of ErrorCompetitor: the entry is built like a saved one, with an id.
ErrorCompetitorWithId(cand, e) ==
  [id |-> NoRow, name |-> cand.name, url |-> cand.url, error |-> e]

\* The saved_competitors entry of a candidate whose save raised.
ErrorCompetitor(cand, e) ==
  [name |-> cand.name, url |-> cand.url, error |-> e]

\* ------------------------------------------- find_and_save_competitors steps

\* The existing company of a candidate: the URL match, else the name match.
ExistingCompany(by_url, by_name) == IF by_url # NoRow THEN by_url ELSE by_name

\* Faulty variant of UpdateData: a differing name is not updated.
UpdateDataUrlOnly(row, cand) ==
  [setName |-> FALSE,
   setUrl |-> cand.url # "" /\ row.website_url # cand.url]

\* update_data: the fields of the existing row that differ from the candidate's.
UpdateData(row, cand) ==
  [setName |-> row.name # cand.name,
   setUrl |-> cand.url # "" /\ row.website_url # cand.url]

SaveFaults ==
  { "url_lookup_raise", "name_lookup_raise", "update_raise", "update_norow",
    "create_raise", "create_norow" }

\* One iteration of the loop over the parsed competitors: the store after it,
\* the entry appended to saved_competitors (none for a skipped candidate), the
\* id appended to competitor_ids, the lookups' results and the faults met.
SaveOne(store, cand, fs) ==
  IF cand.name = ""
    THEN [kind |-> "skipped", store |-> store, entries |-> <<>>, ids |-> <<>>,
          hit |-> {}, by_url |-> NoRow, by_name |-> NoRow, writes |-> 0]
  ELSE
    LET urlRaise == cand.url # "" /\ "url_lookup_raise" \in fs
        by_url == IF cand.url # "" /\ ~urlRaise
                    THEN get_company_by_url(store, cand.url) ELSE NoRow
        nameRaise == by_url = NoRow /\ "name_lookup_raise" \in fs
        by_name == IF by_url = NoRow /\ ~nameRaise
                     THEN select_company_by_name(store, cand.name) ELSE NoRow
        existing == ExistingCompany(by_url, by_name)
        lookupHit == (IF urlRaise THEN {"url_lookup_raise"} ELSE {})
                       \cup (IF nameRaise THEN {"name_lookup_raise"} ELSE {})
    IN IF existing # NoRow
         THEN
           LET row == store[existing]
               setName == UpdateData(row, cand).setName
               setUrl == UpdateData(row, cand).setUrl
               upd == setName \/ setUrl
               updRaise == upd /\ "update_raise" \in fs
               updNoRow == upd /\ ~updRaise /\ "update_norow" \in fs
               store2 == IF upd /\ ~updRaise /\ ~updNoRow
                           THEN update_company(store, existing, setName, cand.name,
                                               setUrl, cand.url)
                           ELSE store
           IN [kind |-> "reused", store |-> store2,
               entries |-> << SavedCompetitor(store2[existing], FALSE) >>,
               ids |-> << existing >>,
               hit |-> lookupHit
                         \cup (IF updRaise THEN {"update_raise"} ELSE {})
                         \cup (IF updNoRow THEN {"update_norow"} ELSE {}),
               by_url |-> by_url, by_name |-> by_name,
               writes |-> IF upd THEN 1 ELSE 0]
         ELSE
           LET crRaise == "create_raise" \in fs
               crNoRow == ~crRaise /\ "create_norow" \in fs
               store2 == create_company(store, cand.name, cand.url)
           IN IF crRaise \/ crNoRow
                THEN [kind |-> "failed", store |-> store,
                      entries |-> << ErrorCompetitor(cand,
                                       IF crRaise
                                         THEN "Failed to save: create_company raised"
                                         ELSE "Failed to save: Failed to create company - no data returned") >>,
                      ids |-> <<>>,
                      hit |-> lookupHit \cup (IF crRaise THEN {"create_raise"}
                                                         ELSE {"create_norow"}),
                      by_url |-> by_url, by_name |-> by_name, writes |-> 1]
                ELSE [kind |-> "created", store |-> store2,
                      entries |-> << SavedCompetitor(store2[Len(store2)], TRUE) >>,
                      ids |-> << Len(store2) >>,
                      hit |-> lookupHit,
                      by_url |-> by_url, by_name |-> by_name, writes |-> 1]

\* Faulty variant of CallsSetCompetitorIds: an empty id list is stored too.
CallsSetCompetitorIdsAnyList(main, ids) == main # NoRow

\* set_competitor_ids is called only for an existing origin and a non-empty list.
CallsSetCompetitorIds(main, ids) == main # NoRow /\ ids # <<>>

\* ------------------------------------------- stream_competitors_research steps

\* The found company already lists competitors: the cached path is taken.
HasCachedCompetitors(store, id) ==
  id # NoRow /\ Len(store[id].competitor_ids) > 0

\* Faulty variant of CachedFrames: only the first stored row is announced.
CachedFramesFirstOnly(saved) ==
  << CompetitorsListFrame(Len(saved)) >>
    \o [i \in 1..(IF saved = <<>> THEN 0 ELSE 1) |-> CompetitorFrame(saved[i])]

\* Faulty variant of CachedFrames: the list frame is yielded after the rows' frames.
CachedFramesListLast(saved) ==
  [i \in 1..Len(saved) |-> CompetitorFrame(saved[i])]
    \o << CompetitorsListFrame(Len(saved)) >>

\* The frames of the cached path: the list, then one frame per stored row.
CachedFrames(saved) ==
  << CompetitorsListFrame(Len(saved)) >>
    \o [i \in 1..Len(saved) |-> CompetitorFrame(saved[i])]

\* Faulty variant of OuterExcept: the stream is closed with a completion frame
\* after the error frame.
OuterExceptThenComplete(fr, e) ==
  Append(fr, ErrorFrame(e)) \o << CompleteFrame("", <<>>, <<>>) >>

\* Faulty variant of OuterExcept: the exception is logged and no frame is yielded.
OuterExceptSilent(fr, e) == fr

\* The outer handler: an exception ends the stream with one error frame.
OuterExcept(fr, e) == Append(fr, ErrorFrame(e))

\* Faulty variant of Eligible: an entry without a URL is researched too.
EligibleWithoutUrl(c) == "error" \notin DOMAIN c

\* A competitor is researched when it was saved without error and has a URL.
Eligible(c) == "error" \notin DOMAIN c /\ c.url # ""

RECURSIVE NextEligible(_, _)
NextEligible(saved, i) ==
  IF i > Len(saved) THEN i
  ELSE IF Eligible(saved[i]) THEN i
  ELSE NextEligible(saved, i + 1)

ErrorResult(comp, e) ==
  [competitor_id |-> comp.id, competitor_name |-> comp.name,
   status |-> "error", error |-> e]

\* Faulty variant of FailedResult: the parse failure is reported as an exception.
FailedResultAsError(comp) == ErrorResult(comp, "Could not parse research data")

FailedResult(comp) ==
  [competitor_id |-> comp.id, competitor_name |-> comp.name,
   status |-> "failed", error |-> "Could not parse research data"]

\* Faulty variant of CachedResult: the result is not tagged as coming from the store.
CachedResultUntagged(comp, analysis) ==
  [competitor_id |-> comp.id, competitor_name |-> comp.name,
   status |-> "success", from_cache |-> FALSE,
   networth_count |-> Cardinality(analysis.networth),
   users_count |-> Cardinality(analysis.users),
   funding_count |-> Cardinality(analysis.funding),
   networth |-> analysis.networth, users |-> analysis.users,
   funding |-> analysis.funding]

CachedResult(comp, analysis) ==
  [competitor_id |-> comp.id, competitor_name |-> comp.name,
   status |-> "success", from_cache |-> TRUE,
   networth_count |-> Cardinality(analysis.networth),
   users_count |-> Cardinality(analysis.users),
   funding_count |-> Cardinality(analysis.funding),
   networth |-> analysis.networth, users |-> analysis.users,
   funding |-> analysis.funding]

FreshResult(comp, data) ==
  [competitor_id |-> comp.id, competitor_name |-> comp.name,
   status |-> "success", from_cache |-> FALSE,
   networth_count |-> Len(data.networth),
   users_count |-> Len(data.users),
   funding_count |-> Len(data.funding),
   networth |-> data.networth, users |-> data.users, funding |-> data.funding]

\* Faulty variant of CheckingFrames: the iteration does not announce itself.
CheckingFramesUnannounced(comp) == << >>

\* What an iteration has yielded when the cache check runs, and when the
\* generation call runs.
CheckingFrames(comp) == << ResearchStatusFrame(comp, "checking") >>

\* Faulty variant of AnalyzingFrames: the 'analyzing' status is not yielded.
AnalyzingFramesMissing(comp) == CheckingFrames(comp)

AnalyzingFrames(comp) ==
  CheckingFrames(comp) \o << ResearchStatusFrame(comp, "analyzing") >>

FoundInDbFrames(comp) ==
  CheckingFrames(comp) \o << ResearchStatusFrame(comp, "found_in_db") >>

ResearchFaults == { "analysis_raise", "gen_raise", "gen_none", "write_raise" }

\* The inner handler of the research loop: the competitor's result is an
\* error result, emitted after whatever frames the iteration had yielded.
InnerExcept(yielded, comp, e) ==
  Append(yielded, CompetitorResearchFrame(ErrorResult(comp, e)))

\* One iteration of the research loop for an eligible competitor: the frames
\* it yields, its research_results entry, the tables after it.
ResearchStep(recs, comp, fs, data) ==
  LET analysis == get_company_analysis(recs, comp.id)
  IN IF "analysis_raise" \in fs
       THEN [frames |-> InnerExcept(CheckingFrames(comp), comp, "get_company_analysis raised"),
             result |-> ErrorResult(comp, "get_company_analysis raised"),
             recs |-> recs, hit |-> {"analysis_raise"}, gen |-> 0, writes |-> 0,
             raised |-> TRUE, parse |-> "none"]
     ELSE IF analysis.found
       THEN [frames |-> Append(FoundInDbFrames(comp),
                                CompetitorResearchFrame(CachedResult(comp, analysis))),
             result |-> CachedResult(comp, analysis),
             recs |-> recs, hit |-> {}, gen |-> 0, writes |-> 0, raised |-> FALSE,
             parse |-> "none"]
     ELSE IF "gen_raise" \in fs
       THEN [frames |-> InnerExcept(AnalyzingFrames(comp), comp, "get_text_completion raised"),
             result |-> ErrorResult(comp, "get_text_completion raised"),
             recs |-> recs, hit |-> {"gen_raise"},
             gen |-> get_text_completion_calls("gen_raise"), writes |-> 0,
             raised |-> TRUE, parse |-> "none"]
     ELSE IF "gen_none" \in fs
       THEN [frames |-> InnerExcept(AnalyzingFrames(comp), comp, "expected string or bytes-like object"),
             result |-> ErrorResult(comp, "expected string or bytes-like object"),
             recs |-> recs, hit |-> {"gen_none"},
             gen |-> get_text_completion_calls("gen_none"), writes |-> 0,
             raised |-> TRUE, parse |-> "raised"]
     ELSE IF data.parsed /\ comp.id # NoRow
       THEN LET wf == "write_raise" \in fs /\ ItemCount(data) > 0
            IN [frames |-> Append(AnalyzingFrames(comp),
                                   CompetitorResearchFrame(FreshResult(comp, data))),
                result |-> FreshResult(comp, data),
                recs |-> save_research_data(recs, comp.id, data, wf),
                hit |-> IF wf THEN {"write_raise"} ELSE {},
                gen |-> get_text_completion_calls("ok"), writes |-> ItemCount(data),
                raised |-> FALSE,
                parse |-> "data"]
     ELSE [frames |-> Append(AnalyzingFrames(comp),
                              CompetitorResearchFrame(FailedResult(comp))),
           result |-> FailedResult(comp),
           recs |-> recs, hit |-> {}, gen |-> get_text_completion_calls("ok"),
           writes |-> 0, raised |-> FALSE,
           parse |-> IF data.parsed THEN "data" ELSE "null"]

\* -------------------------------------------------------------------- state

VARIABLES
  companies,          \* the companies table: row i has id i
  records,            \* the rows of the three time-series tables
  run,                \* runs started so far
  faults,             \* faults injected so far
  pc,                 \* where the running generator is
  company_url,        \* the run's input URL
  frames,             \* the frames the run has yielded
  existing_company,   \* id the initial lookup found (NoRow: none)
  main_company_id,    \* find_and_save_competitors' main_company_id
  competitors,        \* the parsed discovery output
  ci,                 \* next candidate of the save loop
  saved_competitors,
  competitor_ids,
  ri,                 \* next competitor of the research loop
  research_results,
  audit,              \* calls issued by the run, by kind
  set_calls,          \* the run's update_company_competitor_ids calls
  raised,             \* positions of saved_competitors whose research raised
  swallowed,          \* positions whose time-series writes raised
  last_save,          \* what the last save-loop iteration saw and did
  main_kind,          \* how the run got its origin company
  path,               \* "cached" or "discover" once the run has branched
  prev,               \* what the previous run left
  workers,            \* the save_research_data calls in progress on the store
  calls,              \* the time-series writes those calls have finished
  input,              \* the argument of the parser or view under study
  output,             \* what it returned or raised
  savers              \* the lookup-then-create sequences in progress on the store

vars ==
  << companies, records, run, faults, pc, company_url, frames, existing_company,
     main_company_id, competitors, ci, saved_competitors, competitor_ids, ri,
     research_results, audit, set_calls, raised, swallowed, last_save, main_kind, path, prev,
     workers, calls, input, output, savers >>

writer_vars == << workers, calls >>

function_vars == << input, output, savers >>

store_vars == << companies, records >>

NoAudit ==
  [discovery_calls |-> 0, research_calls |-> 0, company_writes |-> 0,
   record_writes |-> 0, extracted |-> <<>>]

NoSave == [kind |-> "none"]

\* A run that is not saving a company.
IdleSaver == [pc |-> "idle"]

NoPrev == [url |-> "", complete |-> FALSE, set_ok |-> FALSE, main |-> NoRow,
           ids |-> <<>>, found |-> NoRow]

\* The runs whose research persistence overlaps on the store.
Workers == 1..2

IdleWorker == [pc |-> "idle", todo |-> <<>>, k |-> 0, err |-> "none",
               existed |-> FALSE, result |-> "none"]

\* No parser or view call is under study.
NoInput == [fn |-> "none"]
NoOutput == [state |-> "none"]

\* No request has arrived and nothing has been recorded.
IdleInit ==
  /\ records = {}
  /\ run = 0
  /\ faults = 0
  /\ pc = "idle"
  /\ company_url = ""
  /\ frames = <<>>
  /\ existing_company = NoRow
  /\ main_company_id = NoRow
  /\ competitors = <<>>
  /\ ci = 1
  /\ saved_competitors = <<>>
  /\ competitor_ids = <<>>
  /\ ri = 1
  /\ research_results = <<>>
  /\ audit = NoAudit
  /\ set_calls = <<>>
  /\ raised = {}
  /\ swallowed = {}
  /\ last_save = NoSave
  /\ main_kind = ""
  /\ path = ""
  /\ prev = NoPrev
  /\ workers = [w \in Workers |-> IdleWorker]
  /\ calls = {}
  /\ savers = [w \in Workers |-> IdleSaver]

\* The pipeline and the store before the first request.
PipelineInit ==
  /\ companies = <<>>
  /\ IdleInit

Init ==
  /\ PipelineInit
  /\ input = NoInput
  /\ output = NoOutput

IsComplete(fr) == fr # <<>> /\ fr[Len(fr)].type = "complete"

SetOk == \E k \in 1..Len(set_calls) : set_calls[k].ok

\* A request arrives while the previous generator is in one of the given
\* states: the generator starts and yields its first status frame.
StartRunFrom(states) ==
  /\ pc \in states
  /\ run < MaxRuns
  /\ \E url \in InputUrls :
       /\ company_url' = url
       /\ frames' = << StatusFrame("Checking database for existing company...") >>
  /\ run' = run + 1
  /\ pc' = "lookup"
  /\ prev' = [url |-> company_url, complete |-> IsComplete(frames), set_ok |-> SetOk,
              main |-> main_company_id, ids |-> competitor_ids,
              found |-> get_company_by_url(companies, company_url)]
  /\ existing_company' = NoRow
  /\ main_company_id' = NoRow
  /\ competitors' = <<>>
  /\ ci' = 1
  /\ saved_competitors' = <<>>
  /\ competitor_ids' = <<>>
  /\ ri' = 1
  /\ research_results' = <<>>
  /\ audit' = NoAudit
  /\ set_calls' = <<>>
  /\ raised' = {}
  /\ swallowed' = {}
  /\ last_save' = NoSave
  /\ main_kind' = ""
  /\ path' = ""
  /\ UNCHANGED << companies, records, faults >>
  /\ UNCHANGED writer_vars
  /\ UNCHANGED function_vars

StartRun == StartRunFrom({"idle", "done"})

LookupOutcomes == { "ok", "supabase_ctor_raise", "openai_ctor_raise", "lookup_raise" }

\* Faulty variant of LookupStep: a failed setup or lookup is taken for "not found".
LookupStepSwallow(store, url, f) ==
  [pc |-> "discover",
   frames |-> << StatusFrame("Company not found. Finding competitors...") >>,
   found |-> NoRow, path |-> "discover"]

\* What the setup and the initial lookup lead to: the next step, the frame
\* yielded, the company found.
LookupStep(store, url, f) ==
  LET id == get_company_by_url(store, url)
  IN IF f # "ok"
       THEN [pc |-> "done", frames |-> OuterExcept(<<>>, f), found |-> NoRow,
             path |-> ""]
     ELSE IF HasCachedCompetitors(store, id)
       THEN [pc |-> "cached",
             frames |-> << FoundExistingFrame(Len(store[id].competitor_ids)) >>,
             found |-> id, path |-> "cached"]
     ELSE IF id # NoRow
       THEN [pc |-> "discover",
             frames |-> << StatusFrame("Company found but no competitors. Finding competitors...") >>,
             found |-> id, path |-> "discover"]
     ELSE [pc |-> "discover",
           frames |-> << StatusFrame("Company not found. Finding competitors...") >>,
           found |-> NoRow, path |-> "discover"]

\* The services are constructed and the input URL is looked up.
Lookup ==
  /\ pc = "lookup"
  /\ \E f \in LookupOutcomes :
       /\ f = "ok" \/ faults < MaxFaults
       /\ faults' = IF f = "ok" THEN faults ELSE faults + 1
       /\ LET r == LookupStep(companies, company_url, f)
          IN /\ pc' = r.pc
             /\ frames' = frames \o r.frames
             /\ existing_company' = r.found
             /\ main_company_id' = r.found
             /\ path' = r.path
  /\ UNCHANGED << companies, records, run, company_url, competitors, ci,
                  saved_competitors, competitor_ids, ri, research_results, audit,
                  set_calls, raised, swallowed, last_save, main_kind, prev >>
  /\ UNCHANGED writer_vars
  /\ UNCHANGED function_vars

\* The frame at position k of a sequence of frames, when it has one.
FrameAt(fr, k) == IF k \in DOMAIN fr THEN << fr[k] >> ELSE << >>

\* The frames of all that are yielded after the frames of before.
YieldedAfter(all, before) == SubSeq(all, Len(before) + 1, Len(all))

\* The cached path up to its first yield: the stored competitor rows are
\* read and converted, and the list is announced.
LoadCached ==
  /\ pc = "cached"
  /\ \E f \in { "ok", "get_competitors_raise" } :
       /\ f = "ok" \/ faults < MaxFaults
       /\ faults' = IF f = "ok" THEN faults ELSE faults + 1
       /\ IF f = "ok"
            THEN LET rows == get_competitors_by_ids(
                               companies, companies[existing_company].competitor_ids)
                     saved == [i \in 1..Len(rows) |-> SavedCompetitor(rows[i], FALSE)]
                 IN /\ saved_competitors' = saved
                    /\ frames' = frames \o FrameAt(CachedFrames(saved), 1)
                    /\ pc' = "cached_rows"
            ELSE /\ frames' = OuterExcept(frames, f)
                 /\ pc' = "done"
                 /\ UNCHANGED saved_competitors
  /\ UNCHANGED << companies, records, run, company_url, existing_company,
                  main_company_id, competitors, ci, competitor_ids, ri,
                  research_results, audit, set_calls, raised, swallowed, last_save, main_kind,
                  path, prev >>
  /\ UNCHANGED writer_vars
  /\ UNCHANGED function_vars

\* The loop over the converted rows: the next row is announced.
AnnounceCached ==
  /\ pc = "cached_rows"
  /\ ci <= Len(saved_competitors)
  /\ frames' = frames \o FrameAt(CachedFrames(saved_competitors), ci + 1)
  /\ ci' = ci + 1
  /\ UNCHANGED << companies, records, run, faults, pc, company_url, existing_company,
                  main_company_id, competitors, saved_competitors, competitor_ids,
                  ri, research_results, audit, set_calls, raised, swallowed,
                  last_save, main_kind, path, prev >>
  /\ UNCHANGED writer_vars
  /\ UNCHANGED function_vars

\* After the loop of the cached path the research loop is announced.
StartCachedResearch ==
  /\ pc = "cached_rows"
  /\ ci > Len(saved_competitors)
  /\ frames' = Append(frames, StartingResearchFrame(Len(saved_competitors)))
  /\ ri' = NextEligible(saved_competitors, 1)
  /\ pc' = "research"
  /\ UNCHANGED << companies, records, run, faults, company_url, existing_company,
                  main_company_id, competitors, ci, saved_competitors,
                  competitor_ids, research_results, audit, set_calls, raised,
                  swallowed, last_save, main_kind, path, prev >>
  /\ UNCHANGED writer_vars
  /\ UNCHANGED function_vars

\* The discovery generation call and the parse of its output.
Discover ==
  /\ pc = "discover"
  /\ \/ \E f \in { "gen_raise", "gen_none" } :
          /\ faults < MaxFaults
          /\ faults' = faults + 1
          /\ audit' = [audit EXCEPT !.discovery_calls = @ + get_text_completion_calls(f)]
          /\ frames' = OuterExcept(frames, f)
          /\ pc' = "done"
          /\ UNCHANGED competitors
     \/ \E list \in CompetitorLists :
          /\ audit' = [audit EXCEPT !.discovery_calls = @ + get_text_completion_calls("ok")]
          /\ competitors' = list
          /\ frames' = Append(frames, CompetitorsListFrame(Len(list)))
          /\ pc' = "ensure_main"
          /\ UNCHANGED faults
  /\ UNCHANGED << companies, records, run, company_url, existing_company,
                  main_company_id, ci, saved_competitors, competitor_ids, ri,
                  research_results, set_calls, raised, swallowed, last_save, main_kind, path,
                  prev >>
  /\ UNCHANGED writer_vars
  /\ UNCHANGED function_vars

EnsureMainOutcomes == { "ok", "main_lookup_raise", "main_create_raise", "main_create_norow" }

\* The origin company is looked up again and created when it is not stored.
EnsureMainStep(store, url, main, f) ==
  IF main # NoRow
    THEN [kind |-> "kept", store |-> store, main |-> main, hit |-> "ok", writes |-> 0]
  ELSE IF f = "main_lookup_raise"
    THEN [kind |-> "raised", store |-> store, main |-> NoRow, hit |-> f, writes |-> 0]
  ELSE IF get_company_by_url(store, url) # NoRow
    THEN [kind |-> "found", store |-> store,
          main |-> get_company_by_url(store, url), hit |-> "ok", writes |-> 0]
  ELSE IF f = "main_create_raise"
    THEN [kind |-> "raised", store |-> store, main |-> NoRow, hit |-> f, writes |-> 1]
  ELSE IF f = "main_create_norow"
    THEN [kind |-> "norow", store |-> store, main |-> NoRow, hit |-> f, writes |-> 1]
  ELSE LET store2 == create_company(store, CompanyNameFromUrl(url), url)
       IN [kind |-> "created", store |-> store2, main |-> Len(store2), hit |-> "ok",
           writes |-> 1]

EnsureMain ==
  /\ pc = "ensure_main"
  /\ \E f \in EnsureMainOutcomes :
       LET r == EnsureMainStep(companies, company_url, main_company_id, f)
       IN /\ r.hit = f
          /\ f = "ok" \/ faults < MaxFaults
          /\ faults' = IF f = "ok" THEN faults ELSE faults + 1
          /\ companies' = r.store
          /\ main_company_id' = r.main
          /\ main_kind' = r.kind
          /\ audit' = [audit EXCEPT !.company_writes = @ + r.writes]
          /\ IF r.kind = "raised"
               THEN /\ frames' = OuterExcept(frames, f)
                    /\ pc' = "done"
               ELSE /\ frames' = frames
                    /\ pc' = "save"
  /\ UNCHANGED << records, run, company_url, existing_company, competitors, ci,
                  saved_competitors, competitor_ids, ri, research_results,
                  set_calls, raised, swallowed, last_save, path, prev >>
  /\ UNCHANGED writer_vars
  /\ UNCHANGED function_vars

\* One candidate of the save loop.
SaveCandidate ==
  /\ pc = "save"
  /\ ci <= Len(competitors)
  /\ \E fs \in SUBSET SaveFaults :
       LET r == SaveOne(companies, competitors[ci], fs)
       IN /\ r.hit = fs
          /\ faults + Cardinality(fs) <= MaxFaults
          /\ faults' = faults + Cardinality(fs)
          /\ companies' = r.store
          /\ saved_competitors' = saved_competitors \o r.entries
          /\ competitor_ids' = competitor_ids \o r.ids
          /\ frames' = frames \o [i \in 1..Len(r.entries) |-> CompetitorFrame(r.entries[i])]
          /\ audit' = [audit EXCEPT !.company_writes = @ + r.writes]
          /\ last_save' = [kind |-> r.kind, cand |-> competitors[ci],
                           before |-> companies, after |-> r.store, by_url |-> r.by_url,
                           by_name |-> r.by_name, hit |-> r.hit,
                           entries |-> r.entries]
  /\ ci' = ci + 1
  /\ UNCHANGED << records, run, pc, company_url, existing_company, main_company_id,
                  competitors, ri, research_results, set_calls, raised, swallowed,
                  main_kind,                  path, prev >>
  /\ UNCHANGED writer_vars
  /\ UNCHANGED function_vars

SetOutcomes == { "ok", "set_raise", "set_schema_missing" }

\* What update_company_competitor_ids gives its caller for the store's
\* response: the updated row; None when the error names the missing
\* competitor_ids column (schema cache, PGRST204); any other error is raised.
update_company_competitor_ids_result(f) ==
  CASE f = "ok" -> "row"
    [] f = "set_schema_missing" -> "none"
    [] OTHER -> "raised"

\* Faulty variant of SetIdsHandler: an exception of the call is not caught.
SetIdsHandlerPropagates(fr, n, outcome) ==
  IF outcome = "raised"
    THEN [pc |-> "done", frames |-> OuterExcept(fr, "update_company_competitor_ids raised")]
    ELSE [pc |-> "research", frames |-> Append(fr, StartingResearchFrame(n))]

\* The caller logs an exception of the call and goes on: the saved
\* competitors are returned and the research loop is announced.
SetIdsHandler(fr, n, outcome) ==
  [pc |-> "research", frames |-> Append(fr, StartingResearchFrame(n))]

\* After the loop: the origin's competitor_ids are stored and the research
\* loop is announced.
SetCompetitorIds ==
  /\ pc = "save"
  /\ ci > Len(competitors)
  /\ \E f \in SetOutcomes :
       /\ f = "ok" \/ (faults < MaxFaults
                        /\ CallsSetCompetitorIds(main_company_id, competitor_ids))
       /\ faults' = IF f = "ok" THEN faults ELSE faults + 1
       /\ IF CallsSetCompetitorIds(main_company_id, competitor_ids)
            THEN /\ set_calls' = Append(set_calls,
                                   [id |-> main_company_id, ids |-> competitor_ids,
                                    ok |-> f = "ok",
                                    outcome |-> update_company_competitor_ids_result(f),
                                    before |-> companies,
                                    saved |-> saved_competitors])
                 /\ companies' = IF f = "ok"
                                   THEN update_company_competitor_ids(
                                          companies, main_company_id, competitor_ids)
                                   ELSE companies
                 /\ audit' = [audit EXCEPT !.company_writes = @ + 1]
            ELSE UNCHANGED << set_calls, companies, audit >>
       /\ LET h == SetIdsHandler(frames, Len(saved_competitors),
                                 IF CallsSetCompetitorIds(main_company_id, competitor_ids)
                                   THEN update_company_competitor_ids_result(f)
                                   ELSE "row")
          IN /\ frames' = h.frames
             /\ pc' = h.pc
  /\ ri' = NextEligible(saved_competitors, 1)
  /\ UNCHANGED << records, run, company_url, existing_company, main_company_id,
                  competitors, ci, saved_competitors, competitor_ids,
                  research_results, raised, swallowed, last_save, main_kind, path, prev >>
  /\ UNCHANGED writer_vars
  /\ UNCHANGED function_vars

\* The status frames of an iteration whose check of the store returned.
StatusFrames(recs, comp) ==
  IF get_company_analysis(recs, comp.id).found
    THEN FoundInDbFrames(comp)
    ELSE AnalyzingFrames(comp)

\* The research loop reaches its next eligible competitor and announces the
\* check.
ResearchChecking ==
  /\ pc = "research"
  /\ ri <= Len(saved_competitors)
  /\ frames' = frames \o CheckingFrames(saved_competitors[ri])
  /\ pc' = "checking"
  /\ UNCHANGED << companies, records, run, faults, company_url, existing_company,
                  main_company_id, competitors, ci, saved_competitors,
                  competitor_ids, ri, research_results, audit, set_calls, raised,
                  swallowed, last_save, main_kind, path, prev >>
  /\ UNCHANGED writer_vars
  /\ UNCHANGED function_vars

\* The stored analysis is read: the iteration announces what it found, or
\* the read raises and the handler of the iteration yields an error result.
ResearchAnalysis ==
  /\ pc = "checking"
  /\ \E fs \in SUBSET { "analysis_raise" } :
       LET comp == saved_competitors[ri]
           r == ResearchStep(records, comp, fs, NoData)
       IN /\ faults + Cardinality(fs) <= MaxFaults
          /\ faults' = faults + Cardinality(fs)
          /\ IF fs # {}
               THEN /\ frames' = frames \o YieldedAfter(r.frames, CheckingFrames(comp))
                    /\ research_results' = Append(research_results, r.result)
                    /\ raised' = raised \cup {ri}
                    /\ ri' = NextEligible(saved_competitors, ri + 1)
                    /\ pc' = "research"
               ELSE /\ frames' = frames \o YieldedAfter(StatusFrames(records, comp),
                                                        CheckingFrames(comp))
                    /\ pc' = IF get_company_analysis(records, comp.id).found
                               THEN "found_in_db" ELSE "analyzing"
                    /\ UNCHANGED << research_results, raised, ri >>
  /\ UNCHANGED << companies, records, run, company_url, existing_company,
                  main_company_id, competitors, ci, saved_competitors,
                  competitor_ids, audit, set_calls, swallowed, last_save, main_kind,
                  path, prev >>
  /\ UNCHANGED writer_vars
  /\ UNCHANGED function_vars

\* The rest of an iteration, from its second status frame to its result
\* frame, for the faults and the extracted data given.
ResearchResult(fs, data) ==
  LET comp == saved_competitors[ri]
      r == ResearchStep(records, comp, fs, data)
  IN /\ r.hit = fs
     /\ faults + Cardinality(fs) <= MaxFaults
     /\ faults' = faults + Cardinality(fs)
     /\ records' = r.recs
     /\ frames' = frames \o YieldedAfter(r.frames, StatusFrames(records, comp))
     /\ research_results' = Append(research_results, r.result)
     /\ audit' = [audit EXCEPT
                    !.research_calls = @ + r.gen,
                    !.record_writes = @ + r.writes,
                    !.extracted = IF r.parse \in {"data", "null"}
                                    THEN Append(@, [pos |-> ri, null |-> r.parse = "null"])
                                    ELSE @]
     /\ raised' = IF r.raised THEN raised \cup {ri} ELSE raised
     /\ swallowed' = IF "write_raise" \in fs THEN swallowed \cup {ri} ELSE swallowed
     /\ ri' = NextEligible(saved_competitors, ri + 1)
     /\ pc' = "research"
     /\ UNCHANGED << companies, run, company_url, existing_company,
                     main_company_id, competitors, ci, saved_competitors,
                     competitor_ids, set_calls, last_save, main_kind, path, prev >>
     /\ UNCHANGED writer_vars
     /\ UNCHANGED function_vars

\* The stored analysis is streamed as the competitor's result.
ResearchCached ==
  /\ pc = "found_in_db"
  /\ ResearchResult({}, NoData)

\* The generation call, the parse of its output and the writes of the
\* extracted records, then the competitor's result.
ResearchGenerate ==
  /\ pc = "analyzing"
  /\ \E fs \in SUBSET (ResearchFaults \ { "analysis_raise" }), data \in ResearchOutputs :
       ResearchResult(fs, data)

\* The loop is over: the completion frame ends the stream.
Complete ==
  /\ pc = "research"
  /\ ri > Len(saved_competitors)
  /\ frames' = Append(frames, CompleteFrame(company_url, saved_competitors,
                                            research_results))
  /\ pc' = "done"
  /\ UNCHANGED << companies, records, run, faults, company_url, existing_company,
                  main_company_id, competitors, ci, saved_competitors,
                  competitor_ids, ri, research_results, audit, set_calls, raised,
                  swallowed, last_save, main_kind, path, prev >>
  /\ UNCHANGED writer_vars
  /\ UNCHANGED function_vars

Next ==
  \/ StartRun
  \/ Lookup
  \/ LoadCached
  \/ AnnounceCached
  \/ StartCachedResearch
  \/ Discover
  \/ EnsureMain
  \/ SaveCandidate
  \/ SetCompetitorIds
  \/ ResearchChecking
  \/ ResearchAnalysis
  \/ ResearchCached
  \/ ResearchGenerate
  \/ Complete

Spec == Init /\ [][Next]_vars

\* ------------------------------------------------- the consumer disconnects

\* The generator is suspended at a yield: every step ends on one except the
\* steps of the save phase that yield nothing (the origin is ensured, a
\* candidate is skipped).
AtYield ==
  \/ pc \in { "lookup", "cached", "cached_rows", "discover", "ensure_main",
              "research", "checking", "found_in_db", "analyzing" }
  \/ pc = "save" /\ last_save.kind # "none" /\ last_save.entries # <<>>

\* Faulty variant of close: the rows of the last company are removed again.
close_undoing(store, recs) ==
  [companies |-> IF store = <<>> THEN store ELSE SubSeq(store, 1, Len(store) - 1),
   records |-> { r \in recs : r.company_id # Len(store) }]

\* The transport closes the generator: GeneratorExit is raised at the yield
\* where it is suspended.  It is not an Exception, so neither the handler of
\* the research loop nor the outer one is entered, there is no finally
\* clause, and no statement of the generator runs: the tables stay as the
\* last statement left them.
close(store, recs) == [companies |-> store, records |-> recs]

\* The consumer abandons the stream after a frame.
Abandon ==
  /\ AtYield
  /\ pc' = "abandoned"
  /\ companies' = close(companies, records).companies
  /\ records' = close(companies, records).records
  /\ UNCHANGED << run, faults, company_url, existing_company, main_company_id,
                  competitors, ci, saved_competitors, competitor_ids, ri,
                  research_results, audit, set_calls, raised, swallowed, last_save,
                  main_kind, path, prev, frames >>
  /\ UNCHANGED writer_vars
  /\ UNCHANGED function_vars

\* The next request after a disconnect.
StartRunAfterAbandon == StartRunFrom({"abandoned"})

NextAbandon ==
  \/ Next
  \/ Abandon
  \/ StartRunAfterAbandon

SpecAbandon == Init /\ [][NextAbandon]_vars

\* ------------------------------------------- time-series writes, call by call

\* The company whose research the overlapping runs persist.
ResearchedCompany == 1

Tables == { "company_networth", "company_users", "company_funding" }

\* create_company_networth and create_company_users handle a duplicate key;
\* create_company_funding is a plain insert.
UpsertTables == { "company_networth", "company_users" }

SourceOf(v) == IF v = 1 THEN "a" ELSE "b"

StoreItems ==
  { [table |-> t, value |-> v, year |-> 2023, source |-> SourceOf(v)] :
      t \in Tables, v \in 1..2 }

ItemLists == SeqsUpTo(StoreItems, MaxItems)

\* An exception of the store client as the handler looks at it: the code in
\* e.message when that is a dict, the code attribute, and what str(e) holds.
NoError == [failed |-> FALSE]

InsertErrors ==
  [failed : {TRUE},
   msg_code : {"nodict", "nocode", "23505", "other"},
   attr_code : {"noattr", "23505", "other"},
   str_23505 : BOOLEAN,
   str_dup : BOOLEAN]

\* What the store raises for an insert that violates (company_id, year).
DuplicateKeyError ==
  [failed |-> TRUE, msg_code |-> "nodict", attr_code |-> "23505",
   str_23505 |-> TRUE, str_dup |-> TRUE]

error_code(e) ==
  IF e.msg_code # "nodict"
    THEN (IF e.msg_code = "nocode" THEN "None" ELSE e.msg_code)
    ELSE IF e.attr_code # "noattr" THEN e.attr_code ELSE "None"

\* Faulty variant of is_duplicate: every insert failure is taken for a duplicate.
is_duplicate_always(e) == TRUE

is_duplicate(e) == error_code(e) = "23505" \/ e.str_23505 \/ e.str_dup

KeyRows(recs, item) ==
  { r \in recs : r.table = item.table /\ r.company_id = ResearchedCompany
                   /\ r.year = item.year }

\* The store's answer to insert(data): the row is added, or the insert fails:
\* with the error injected, or for a key already stored with a duplicate key
\* error.
InsertResponse(recs, item, fault) ==
  IF fault.failed THEN fault
  ELSE IF HasRow(recs, item.table, ResearchedCompany, item.year)
    THEN DuplicateKeyError
  ELSE NoError

\* What the write does after its insert: return the row, fall back to the
\* update, or log and raise.
AfterInsert(table, e) ==
  IF ~e.failed THEN "return"
  ELSE IF table \in UpsertTables /\ is_duplicate(e) THEN "update"
  ELSE "raise"

\* The worker after the write of its current item has returned or raised:
\* save_research_data logs an exception and goes on with the next item, and
\* its caller reports success once it returns.
NextItem(wk) ==
  LET rest == Tail(wk.todo)
  IN [pc |-> IF rest = <<>> THEN "done" ELSE "insert",
      todo |-> rest, k |-> wk.k + 1, err |-> NoError, existed |-> FALSE,
      result |-> IF rest = <<>> THEN "success" ELSE "none"]

CallEntry(w, wk, e, updated, upd_failed, outcome, before, after) ==
  [w |-> w, k |-> wk.k + 1, item |-> Head(wk.todo), existed |-> wk.existed,
   err |-> e, updated |-> updated, upd_failed |-> upd_failed, outcome |-> outcome,
   before |-> before, after |-> after]

\* What the fallback update gives the caller: the updated row, None when no
\* row matched, or the update's own exception.
AfterUpdate(fails, matched) ==
  IF fails THEN "raised" ELSE IF matched # {} THEN "row" ELSE "none"

main_vars ==
  << companies, run, pc, company_url, frames, existing_company, main_company_id,
     competitors, ci, saved_competitors, competitor_ids, ri, research_results,
     audit, set_calls, raised, swallowed, last_save, main_kind, path, prev >>

\* A run enters save_research_data with the records it extracted.
BeginSave(w) ==
  /\ workers[w].pc = "idle"
  /\ \E items \in ItemLists :
       workers' = [workers EXCEPT ![w] =
                     [pc |-> IF items = <<>> THEN "done" ELSE "insert",
                      todo |-> items, k |-> 0, err |-> NoError, existed |-> FALSE,
                      result |-> IF items = <<>> THEN "success" ELSE "none"]]
  /\ UNCHANGED << records, faults, calls, main_vars >>
  /\ UNCHANGED function_vars

\* The insert of the current item reaches the store.
InsertStep(w) ==
  /\ workers[w].pc = "insert"
  /\ \E fault \in {NoError} \cup InsertErrors :
       LET wk == workers[w]
           item == Head(wk.todo)
           had == HasRow(records, item.table, ResearchedCompany, item.year)
           e == InsertResponse(records, item, fault)
           todo == AfterInsert(item.table, e)
           recs == IF e.failed THEN records
                   ELSE InsertRow(records, item.table, ResearchedCompany,
                                  item.value, item.year, item.source)
           seen == [wk EXCEPT !.existed = had]
       IN /\ fault.failed => faults < MaxFaults
          /\ faults' = IF fault.failed THEN faults + 1 ELSE faults
          /\ records' = recs
          /\ IF todo = "update"
               THEN /\ workers' = [workers EXCEPT ![w] =
                                     [seen EXCEPT !.pc = "update", !.err = e]]
                    /\ UNCHANGED calls
               ELSE /\ workers' = [workers EXCEPT ![w] = NextItem(wk)]
                    /\ calls' = calls \cup
                         { CallEntry(w, seen, e, FALSE, FALSE,
                                     IF todo = "return" THEN "row" ELSE "raised",
                                     KeyRows(records, item), KeyRows(recs, item)) }
  /\ UNCHANGED main_vars
  /\ UNCHANGED function_vars

\* The fallback update of the current item reaches the store.
UpdateStep(w) ==
  /\ workers[w].pc = "update"
  /\ \E fails \in BOOLEAN :
       LET wk == workers[w]
           item == Head(wk.todo)
           recs == IF fails THEN records
                   ELSE UpdateRow(records, item.table, ResearchedCompany,
                                  item.value, item.year, item.source)
           outcome == AfterUpdate(fails, KeyRows(records, item))
       IN /\ fails => faults < MaxFaults
          /\ faults' = IF fails THEN faults + 1 ELSE faults
          /\ records' = recs
          /\ workers' = [workers EXCEPT ![w] = NextItem(wk)]
          /\ calls' = calls \cup
               { CallEntry(w, wk, wk.err, TRUE, fails, outcome,
                           KeyRows(records, item), KeyRows(recs, item)) }
  /\ UNCHANGED main_vars
  /\ UNCHANGED function_vars

NextStore == \E w \in Workers : BeginSave(w) \/ InsertStep(w) \/ UpdateStep(w)

SpecStore == Init /\ [][NextStore]_vars

\* ------------------------------------- overlapping runs saving a company

\* Rows in the companies table while runs overlap.
MaxCompanies == 3

\* Two runs are served at the same time and share the store; each statement
\* that calls the store is a step of its own.  A run ensures its origin
\* company (by URL, then create) or saves a candidate with a name (by URL
\* when it has one, then by name, then update or create).
SaveTasks ==
  { [kind |-> "origin", name |-> CompanyNameFromUrl(u), url |-> u] : u \in InputUrls }
    \cup { [kind |-> "candidate", name |-> c.name, url |-> c.url] :
             c \in { d \in Candidates : d.name # "" } }

\* Everything but the companies table and the runs saving into it.
save_unchanged ==
  << records, run, faults, pc, company_url, frames, existing_company,
     main_company_id, competitors, ci, saved_competitors, competitor_ids, ri,
     research_results, audit, set_calls, raised, swallowed, last_save, main_kind,
     path, prev, workers, calls, input, output >>

\* A run reaches the lookup for its company.
BeginLookup(w) ==
  /\ savers[w].pc = "idle"
  /\ \E task \in SaveTasks :
       savers' = [savers EXCEPT ![w] =
                    [pc |-> IF task.url = "" THEN "by_name" ELSE "by_url",
                     task |-> task, found |-> NoRow, row |-> NoRow]]
  /\ UNCHANGED companies
  /\ UNCHANGED save_unchanged

\* get_company_by_url: the row found, if any, decides the next statement.
LookupByUrl(w) ==
  /\ savers[w].pc = "by_url"
  /\ LET id == get_company_by_url(companies, savers[w].task.url)
     IN savers' = [savers EXCEPT ![w].found = id,
                                 ![w].row = IF id # NoRow THEN companies[id] ELSE NoRow,
                                 ![w].pc = IF id # NoRow
                                             THEN IF savers[w].task.kind = "origin"
                                                    THEN "done" ELSE "update"
                                           ELSE IF savers[w].task.kind = "origin"
                                             THEN "create" ELSE "by_name"]
  /\ UNCHANGED companies
  /\ UNCHANGED save_unchanged

\* The candidate's lookup by name.
LookupByName(w) ==
  /\ savers[w].pc = "by_name"
  /\ LET id == select_company_by_name(companies, savers[w].task.name)
     IN savers' = [savers EXCEPT ![w].found = ExistingCompany(NoRow, id),
                                 ![w].row = IF id # NoRow THEN companies[id] ELSE NoRow,
                                 ![w].pc = IF id # NoRow THEN "update" ELSE "create"]
  /\ UNCHANGED companies
  /\ UNCHANGED save_unchanged

\* update_company with the fields in which the row, as the lookup read it,
\* differs from the candidate; no call when none differs.
UpdateFound(w) ==
  /\ savers[w].pc = "update"
  /\ LET id == savers[w].found
         upd == UpdateData(savers[w].row, savers[w].task)
     IN companies' = IF upd.setName \/ upd.setUrl
                       THEN update_company(companies, id, upd.setName,
                                           savers[w].task.name, upd.setUrl,
                                           savers[w].task.url)
                       ELSE companies
  /\ savers' = [savers EXCEPT ![w].pc = "done"]
  /\ UNCHANGED save_unchanged

\* create_company: no row was found by the lookups made before.
CreateNew(w) ==
  /\ savers[w].pc = "create"
  /\ companies' = create_company(companies, savers[w].task.name, savers[w].task.url)
  /\ savers' = [savers EXCEPT ![w].found = Len(companies) + 1, ![w].pc = "done"]
  /\ UNCHANGED save_unchanged

\* The run goes on to its next company.
NextCompany(w) ==
  /\ savers[w].pc = "done"
  /\ Len(companies) < MaxCompanies
  /\ savers' = [savers EXCEPT ![w] = IdleSaver]
  /\ UNCHANGED companies
  /\ UNCHANGED save_unchanged

NextOverlap ==
  \E w \in Workers :
    \/ BeginLookup(w)
    \/ LookupByUrl(w)
    \/ LookupByName(w)
    \/ UpdateFound(w)
    \/ CreateNew(w)
    \/ NextCompany(w)

SpecOverlap == Init /\ [][NextOverlap]_vars

\* ----------------------------------------------- parse_competitors_response

\* A response text is a sequence of tokens; the text is their concatenation.
\*   "["  "]"  ","  "1"   the characters themselves
\*   "fence"              three backquotes, the code fence
\*   "obj_beta"           {"name":" Beta ","url":"https://beta.test "}
\*   "obj_acme"           {"name":"Acme","url":"https://www.acme.test"}
\*   "obj_bracket"        {"name":"Be]ta","url":"https://beta.test"}
\*   "obj_blank"          {"name":"  ","url":"https://www.acme.test"}
\*   "obj_no_url"         {"name":"Acme"}
\*   "deep"               {"a": repeated 100000 times
ObjectTokens == { "obj_beta", "obj_acme", "obj_bracket", "obj_blank", "obj_no_url" }

ListTokens == { "[", "]", ",", "1", "fence", "deep" } \cup ObjectTokens

\* Tokens of one response text.
MaxListTokens == 5

ListTexts == SeqsUpTo(ListTokens, MaxListTokens)

\* The JSON object an object token denotes.
ObjectOf(tok) ==
  CASE tok = "obj_beta" -> [name |-> " Beta ", url |-> "https://beta.test "]
    [] tok = "obj_acme" -> [name |-> "Acme", url |-> AcmeUrl]
    [] tok = "obj_blank" -> [name |-> "  ", url |-> AcmeUrl]
    [] tok = "obj_no_url" -> [name |-> "Acme"]
    [] OTHER -> [name |-> "Be]ta", url |-> BetaUrl]

\* str.strip() on the strings of the universe.
Strip(str) ==
  CASE str = " Beta " -> "Beta"
    [] str = "https://beta.test " -> BetaUrl
    [] str = "  " -> ""
    [] str = " src " -> "src"
    [] OTHER -> str

\* The least member of a non-empty set of positions.
Least(S) == CHOOSE i \in S : \A j \in S : i <= j

\* json.loads, as a scan from the left.  A step gives the value read and the
\* position after it, or the exception: json.JSONDecodeError for text that is
\* not JSON, RecursionError when the decoder descends into "deep".
DecodeError == [kind |-> "JSONDecodeError"]
RecursionError == [kind |-> "RecursionError"]

\* The position after the digits that start at position i: adjacent "1"
\* tokens are the digits of one number.
RECURSIVE AfterDigits(_, _)
AfterDigits(b, i) ==
  IF i <= Len(b) /\ b[i] = "1" THEN AfterDigits(b, i + 1) ELSE i

RECURSIVE ScanValue(_, _)
RECURSIVE ScanItems(_, _, _)

\* The items of an array, from position i: "]" closes it at once only when
\* no item was read (after a "," a value is expected).
ScanItems(t, i, acc) ==
  IF i > Len(t) THEN DecodeError
  ELSE IF t[i] = "]" /\ acc = <<>>
    THEN [kind |-> "value", val |-> [type |-> "list", items |-> acc], next |-> i + 1]
  ELSE LET v == ScanValue(t, i)
       IN IF v.kind # "value" THEN v
          ELSE IF v.next > Len(t) THEN DecodeError
          ELSE IF t[v.next] = "]"
            THEN [kind |-> "value",
                  val |-> [type |-> "list", items |-> Append(acc, v.val)],
                  next |-> v.next + 1]
          ELSE IF t[v.next] = ","
            THEN ScanItems(t, v.next + 1, Append(acc, v.val))
          ELSE DecodeError

ScanValue(t, i) ==
  IF i > Len(t) THEN DecodeError
  ELSE IF t[i] \in ObjectTokens
    THEN [kind |-> "value", val |-> [type |-> "dict", fields |-> ObjectOf(t[i])],
          next |-> i + 1]
  ELSE IF t[i] = "1"
    THEN [kind |-> "value", val |-> [type |-> "number"], next |-> AfterDigits(t, i)]
  ELSE IF t[i] = "deep" THEN RecursionError
  ELSE IF t[i] = "[" THEN ScanItems(t, i + 1, <<>>)
  ELSE DecodeError

json_loads(t) ==
  LET v == ScanValue(t, 1)
  IN IF v.kind # "value" THEN v
     ELSE IF v.next # Len(t) + 1 THEN DecodeError
     ELSE v

\* re.search(r'\[[\s\S]*?\]'): from the first "[" to the first "]" after it.
\* The "]" inside the name of obj_bracket ends the match within that object,
\* whose cut text is the token "cut".
HasClosingBracket(tok) == tok \in { "]", "obj_bracket" }

NoMatch == [found |-> FALSE]

first_array(t) ==
  LET opens == { i \in 1..Len(t) : t[i] = "[" }
      i == Least(opens)
      closes == { j \in (i + 1)..Len(t) : HasClosingBracket(t[j]) }
      j == Least(closes)
  IN IF opens = {} THEN NoMatch
     ELSE IF closes = {} THEN NoMatch
     ELSE [found |-> TRUE,
           json_str |-> SubSeq(t, i, j - 1)
                          \o << IF t[j] = "]" THEN "]" ELSE "cut" >>]

\* re.search(r'```(?:json)?\s*(\[[\s\S]*?\])\s*```'): the leftmost fence that
\* is followed by "[" and, later, by a "]" with a fence right after it; the
\* group runs to the first such "]".
FencedEnds(t, s) ==
  { e \in (s + 2)..(Len(t) - 1) : t[e] = "]" /\ t[e + 1] = "fence" }

fenced_array(t) ==
  LET starts == { s \in 1..(Len(t) - 1) :
                    t[s] = "fence" /\ t[s + 1] = "[" /\ FencedEnds(t, s) # {} }
      s == Least(starts)
  IN IF starts = {} THEN NoMatch
     ELSE [found |-> TRUE, json_str |-> SubSeq(t, s + 1, Least(FencedEnds(t, s)))]

\* The elements that are objects with a name and a url, both stripped.
cleaned_competitors(items) ==
  LET kept == SelectSeq(items, LAMBDA v : /\ v.type = "dict"
                                          /\ "name" \in DOMAIN v.fields
                                          /\ "url" \in DOMAIN v.fields)
  IN [k \in 1..Len(kept) |-> [name |-> Strip(kept[k].fields.name),
                               url |-> Strip(kept[k].fields.url)]]

Returned(val) == [state |-> "returned", value |-> val]
Raised(e) == [state |-> "raised", error |-> e.kind]

\* What one pattern's match gives: the cleaned list when the match is JSON
\* for a list, nothing ("pass") on json.JSONDecodeError, and any other
\* exception of json.loads to the caller.
from_match(m) ==
  LET v == json_loads(m.json_str)
  IN IF ~m.found THEN [state |-> "pass"]
     ELSE IF v.kind = "JSONDecodeError" THEN [state |-> "pass"]
     ELSE IF v.kind # "value" THEN Raised(v)
     ELSE IF v.val.type = "list" THEN Returned(cleaned_competitors(v.val.items))
     ELSE [state |-> "pass"]

parse_competitors_response(response_text) ==
  LET a == from_match(first_array(response_text))
      b == from_match(fenced_array(response_text))
  IN IF a.state # "pass" THEN a
     ELSE IF b.state # "pass" THEN b
     ELSE Returned(<<>>)

\* -------------------------------------------------- parse_research_response

\* A research response text is a sequence of tokens, concatenated:
\*   "{"  "}"     a brace on its own
\*   "fence"      three backquotes
\*   "json"       the word json
\*   "data"       {"networth":[{"value":1,"year":2023,"source":"src"}],"users":[],"funding":[]}
\*   "data_caps"  {"Users":[{"value":1,"year":2023,"source":"src"}],"Funding":[]}
\*   "scalar"     {"networth":5,"users":[],"funding":[]}
\*   "note"       {"note":"x"}
DataObjectTokens == { "data", "data_caps", "scalar", "note" }

DataTokens == { "{", "}", "fence", "json" } \cup DataObjectTokens

\* Tokens of one research response text.
MaxDataTokens == 4

DataTexts == SeqsUpTo(DataTokens, MaxDataTokens)

\* The text of a token as pieces: each brace is a piece of its own, "item" is
\* "value":1,"year":2023,"source":"src", the other pieces are the text
\* between the braces.
Pieces(tok) ==
  CASE tok = "data" ->
         << "{", "networth:[", "{", "item", "}", "],users:[],funding:[]", "}" >>
    [] tok = "data_caps" ->
         << "{", "Users:[", "{", "item", "}", "],Funding:[]", "}" >>
    [] tok = "scalar" -> << "{", "networth:5,users:[],funding:[]", "}" >>
    [] tok = "note" -> << "{", "note:x", "}" >>
    [] OTHER -> << tok >>

RECURSIVE PiecesOf(_)
PiecesOf(t) == IF t = <<>> THEN <<>> ELSE Pieces(Head(t)) \o PiecesOf(Tail(t))

\* The quoted key names a piece holds, lower-cased, in order.
QuotedKeys(piece) ==
  CASE piece = "networth:[" -> << "networth" >>
    [] piece = "Users:[" -> << "users" >>
    [] piece = "],users:[],funding:[]" -> << "users", "funding" >>
    [] piece = "],Funding:[]" -> << "funding" >>
    [] piece = "networth:5,users:[],funding:[]" -> << "networth", "users", "funding" >>
    [] OTHER -> <<>>

ListValue(items) == [type |-> "list", items |-> items]
ScalarValue == [type |-> "scalar"]

\* json.loads of a run of pieces that starts with "{" and ends with "}": the
\* object as its (key, value) pairs in order, else json.JSONDecodeError.  The
\* only such runs that are JSON are a whole object token, the object inside
\* "data" and "data_caps", and the two braces with nothing between them.
json_loads_object(c) ==
  CASE c = Pieces("data") ->
         [kind |-> "value",
          pairs |-> << [key |-> "networth", val |-> ListValue(<< Item2023 >>)],
                       [key |-> "users", val |-> ListValue(<<>>)],
                       [key |-> "funding", val |-> ListValue(<<>>)] >>]
    [] c = Pieces("data_caps") ->
         [kind |-> "value",
          pairs |-> << [key |-> "Users", val |-> ListValue(<< Item2023 >>)],
                       [key |-> "Funding", val |-> ListValue(<<>>)] >>]
    [] c = Pieces("scalar") ->
         [kind |-> "value",
          pairs |-> << [key |-> "networth", val |-> ScalarValue],
                       [key |-> "users", val |-> ListValue(<<>>)],
                       [key |-> "funding", val |-> ListValue(<<>>)] >>]
    [] c = Pieces("note") ->
         [kind |-> "value", pairs |-> << [key |-> "note", val |-> ScalarValue] >>]
    [] c = << "{", "item", "}" >> ->
         [kind |-> "value",
          pairs |-> << [key |-> "value", val |-> ScalarValue],
                       [key |-> "year", val |-> ScalarValue],
                       [key |-> "source", val |-> ScalarValue] >>]
    [] c = << "{", "}" >> -> [kind |-> "value", pairs |-> <<>>]
    [] OTHER -> DecodeError

\* str.lower() on the key names of the universe.
Lower(key) ==
  CASE key = "Users" -> "users"
    [] key = "Funding" -> "funding"
    [] OTHER -> key

\* result[key]: the value of the exact key, else of the first key equal to it
\* when lower-cased, else the empty list.
ResolveKey(pairs, key) ==
  LET exact == { k \in 1..Len(pairs) : pairs[k].key = key }
      anycase == { k \in 1..Len(pairs) : Lower(pairs[k].key) = key }
  IN IF exact # {} THEN pairs[Least(exact)].val
     ELSE IF anycase # {} THEN pairs[Least(anycase)].val
     ELSE ListValue(<<>>)

\* Faulty variant of research_result: a key bound to a scalar or an object is
\* taken for an empty list.
research_result_unvalidated(pairs) ==
  LET n == ResolveKey(pairs, "networth")
      u == ResolveKey(pairs, "users")
      f == ResolveKey(pairs, "funding")
  IN [parsed |-> TRUE,
      networth |-> IF n.type = "list" THEN n.items ELSE <<>>,
      users |-> IF u.type = "list" THEN u.items ELSE <<>>,
      funding |-> IF f.type = "list" THEN f.items ELSE <<>>]

\* The candidate's result when all three keys resolve to lists, else nothing.
research_result(pairs) ==
  LET n == ResolveKey(pairs, "networth")
      u == ResolveKey(pairs, "users")
      f == ResolveKey(pairs, "funding")
  IN IF n.type = "list" /\ u.type = "list" /\ f.type = "list"
       THEN [parsed |-> TRUE, networth |-> n.items, users |-> u.items,
             funding |-> f.items]
       ELSE NoData

\* has_arrays: one of the six names is not a key of the object (get's default
\* is a list) or is bound to a list.
has_arrays(pairs) ==
  \E name \in { "networth", "users", "funding", "Networth", "Users", "Funding" } :
    \A k \in 1..Len(pairs) : pairs[k].key = name => pairs[k].val.type = "list"

\* The fenced patterns: the leftmost fence (followed by the word json, when
\* the pattern allows it) that is followed by "{" and, later, by a "}" with a
\* fence right after it; the group runs from that "{" to the first such "}".
FencedObjectEnds(c, b) ==
  { e \in (b + 1)..(Len(c) - 1) : c[e] = "}" /\ c[e + 1] = "fence" }

FencedObjectStart(c, s, tagged) ==
  IF s + 1 <= Len(c) /\ c[s + 1] = "{" THEN s + 1
  ELSE IF tagged /\ s + 2 <= Len(c) /\ c[s + 1] = "json" /\ c[s + 2] = "{" THEN s + 2
  ELSE 0

fenced_object(c, tagged) ==
  LET starts == { s \in 1..Len(c) :
                    /\ c[s] = "fence"
                    /\ FencedObjectStart(c, s, tagged) # 0
                    /\ FencedObjectEnds(c, FencedObjectStart(c, s, tagged)) # {} }
      b == FencedObjectStart(c, Least(starts), tagged)
  IN IF starts = {} THEN NoMatch
     ELSE [found |-> TRUE, json_str |-> SubSeq(c, b, Least(FencedObjectEnds(c, b)))]

\* What one fenced or keyed pattern gives: the result of its match when the
\* match is JSON for an object whose three keys resolve to lists.
from_object_match(m) ==
  IF ~m.found THEN NoData
  ELSE IF json_loads_object(m.json_str).kind # "value" THEN NoData
  ELSE research_result(json_loads_object(m.json_str).pairs)

\* The brace scan: brace_count and start_idx over the text; each top-level
\* closing brace gives a candidate, the first accepted one is returned.
RECURSIVE brace_scan(_, _, _, _)
brace_scan(c, i, brace_count, start_idx) ==
  IF i > Len(c) THEN NoData
  ELSE IF c[i] = "{"
    THEN brace_scan(c, i + 1, brace_count + 1,
                    IF brace_count = 0 THEN i ELSE start_idx)
  ELSE IF c[i] = "}"
    THEN IF brace_count - 1 = 0 /\ start_idx # -1
           THEN LET v == json_loads_object(SubSeq(c, start_idx, i))
                    r == IF v.kind = "value" /\ has_arrays(v.pairs)
                           THEN research_result(v.pairs) ELSE NoData
                IN IF r.parsed THEN r
                   ELSE brace_scan(c, i + 1, 0, -1)
           ELSE brace_scan(c, i + 1, brace_count - 1, start_idx)
  ELSE brace_scan(c, i + 1, brace_count, start_idx)

\* The braces and quoted key names of the text, in order, each with the
\* position of its piece.
RECURSIVE Marks(_, _)
Marks(c, i) ==
  IF i > Len(c) THEN <<>>
  ELSE (IF c[i] \in { "{", "}" }
          THEN << [at |-> i, mark |-> c[i]] >>
          ELSE [k \in 1..Len(QuotedKeys(c[i])) |->
                  [at |-> i, mark |-> QuotedKeys(c[i])[k]]])
       \o Marks(c, i + 1)

\* The first of the marks after position `from` that is `mark` (0: none).
NextMark(ms, from, mark) ==
  LET hits == { k \in (from + 1)..Len(ms) : ms[k].mark = mark }
  IN IF from = 0 \/ hits = {} THEN 0 ELSE Least(hits)

\* The keyed patterns (the three find the same match in these texts, where
\* every key name is quoted): from the first "{" over the first "networth",
\* "users" and "funding" that follow one another to the first "}" after them.
keyed_object(c) ==
  LET ms == Marks(c, 1)
      opens == { k \in 1..Len(ms) : ms[k].mark = "{" }
      s == IF opens = {} THEN 0 ELSE Least(opens)
      e == NextMark(ms, NextMark(ms, NextMark(ms, NextMark(ms, s, "networth"),
                                              "users"), "funding"), "}")
  IN IF e = 0 THEN NoMatch
     ELSE [found |-> TRUE, json_str |-> SubSeq(c, ms[s].at, ms[e].at)]

parse_research_response(response_text) ==
  LET c == PiecesOf(response_text)
      a1 == from_object_match(fenced_object(c, TRUE))
      a2 == from_object_match(fenced_object(c, FALSE))
      b == brace_scan(c, 1, 0, -1)
      k == from_object_match(keyed_object(c))
  IN Returned(IF a1.parsed THEN a1
              ELSE IF a2.parsed THEN a2
              ELSE IF b.parsed THEN b
              ELSE k)

\* ----------------------------------------------------- find_competitors

\* Python values of a request: a str, None, a number, a list, a dict.
PyStr(str) == [type |-> "str", str |-> str]
None == [type |-> "NoneType"]
PyNumber == [type |-> "int"]
PyList(items) == [type |-> "list", items |-> items]
PyDict(fields) == [type |-> "dict", fields |-> fields]

\* bool(value) for the values of the universe; the numbers are not 0.
Truthy(value) ==
  CASE value.type = "NoneType" -> FALSE
    [] value.type = "str" -> value.str # ""
    [] value.type = "list" -> value.items # <<>>
    [] value.type = "dict" -> DOMAIN value.fields # {}
    [] OTHER -> TRUE

\* dict.get(key): the value under the key, None without it.
dict_get(fields, key) == IF key \in DOMAIN fields THEN fields[key] ELSE None

\* The tokens of a request body.  The object tokens stand for
\*   body_url     {"url":"https://www.acme.test"}
\*   body_blank   {"url":""}
\*   body_null    {"url":null}
\*   body_no_url  {"name":"Acme"}
\* and "xff" for the byte 0xFF, which is not UTF-8.
BodyObjectTokens == { "body_url", "body_blank", "body_null", "body_no_url" }

BodyTokens == { "[", "]", "{", "1", "null", "xff" } \cup BodyObjectTokens

\* Tokens of one request body.
MaxBodyTokens == 3

Bodies == SeqsUpTo(BodyTokens, MaxBodyTokens)

BodyObjectOf(tok) ==
  CASE tok = "body_url" -> [url |-> PyStr(AcmeUrl)]
    [] tok = "body_blank" -> [url |-> PyStr("")]
    [] tok = "body_null" -> [url |-> None]
    [] OTHER -> [name |-> PyStr("Acme")]

UnicodeDecodeError == [kind |-> "UnicodeDecodeError"]
AttributeError == [kind |-> "AttributeError"]

RECURSIVE ScanBodyValue(_, _)

\* json.loads(request.body): the bytes are decoded first (a byte that is not
\* UTF-8 raises UnicodeDecodeError), then one value is read from the left and
\* nothing may follow it.
ScanBodyValue(b, i) ==
  IF i > Len(b) THEN DecodeError
  ELSE IF b[i] \in BodyObjectTokens
    THEN [kind |-> "value", val |-> PyDict(BodyObjectOf(b[i])), next |-> i + 1]
  ELSE IF b[i] = "1"
    THEN [kind |-> "value", val |-> PyNumber, next |-> AfterDigits(b, i)]
  ELSE IF b[i] = "null" THEN [kind |-> "value", val |-> None, next |-> i + 1]
  ELSE IF b[i] = "["
    THEN IF i + 1 > Len(b) THEN DecodeError
         ELSE IF b[i + 1] = "]"
           THEN [kind |-> "value", val |-> PyList(<<>>), next |-> i + 2]
         ELSE LET v == ScanBodyValue(b, i + 1)
              IN IF v.kind # "value" THEN v
                 ELSE IF v.next > Len(b) \/ b[v.next] # "]" THEN DecodeError
                 ELSE [kind |-> "value", val |-> PyList(<<v.val>>),
                       next |-> v.next + 1]
  ELSE DecodeError

json_loads_body(b) ==
  IF \E i \in 1..Len(b) : b[i] = "xff" THEN UnicodeDecodeError
  ELSE LET v == ScanBodyValue(b, 1)
       IN IF v.kind # "value" THEN v
          ELSE IF v.next # Len(b) + 1 THEN DecodeError
          ELSE v

\* The requests: a GET with its query parameters, a POST with its body.
Queries == { <<>>, [url |-> PyStr("")], [url |-> PyStr(AcmeUrl)],
             [name |-> PyStr("Acme")] }

Requests ==
  { [method |-> "GET", GET |-> q] : q \in Queries }
    \cup { [method |-> "POST", body |-> b] : b \in Bodies }

\* The two kinds of response: a JsonResponse with its status and the fields
\* of its body, and the StreamingHttpResponse over the generator
\* stream_competitors_research(company_url), which starts the pipeline.
JsonResponse(fields, code) ==
  [streaming |-> FALSE, status |-> code, fields |-> fields]
StreamingHttpResponse(value) ==
  [streaming |-> TRUE, status |-> 200, company_url |-> value]

\* data = json.loads(request.body); company_url = data.get("url"), or the
\* exception of the two statements.
body_url(body) ==
  LET data == json_loads_body(body)
  IN IF data.kind # "value" THEN data
     ELSE IF data.val.type # "dict" THEN AttributeError
     ELSE [kind |-> "value", val |-> dict_get(data.val.fields, "url")]

url_required(value) ==
  IF ~Truthy(value) THEN JsonResponse({"error"}, 400)
  ELSE StreamingHttpResponse(value)

find_competitors(request) ==
  IF request.method = "POST"
    THEN LET u == body_url(request.body)
         IN IF u.kind = "JSONDecodeError" THEN JsonResponse({"error"}, 400)
            ELSE IF u.kind # "value" THEN JsonResponse({"error"}, 500)
            ELSE url_required(u.val)
  ELSE url_required(dict_get(request.GET, "url"))

\* ------------------------------------------- a client deletes a company

\* delete_company is a method of the persistence adapter that no view and no
\* step of the pipeline calls: a client of the adapter calls it on a store
\* that runs have filled.  The stores: up to MaxCompanies rows created one
\* after the other, the first row listing the others as its competitors or
\* listing none.
RECURSIVE CreatedStores(_)
CreatedStores(n) ==
  IF n = 0 THEN { <<>> }
  ELSE LET smaller == CreatedStores(n - 1)
       IN smaller \cup { create_company(st, CompanyNameFromUrl(u), v) :
                           st \in { x \in smaller : Len(x) = n - 1 },
                           u \in InputUrls, v \in InputUrls \cup { "" } }

ServiceStores ==
  CreatedStores(MaxCompanies)
    \cup { update_company_competitor_ids(st, 1, [i \in 1..(Len(st) - 1) |-> i + 1]) :
             st \in { x \in CreatedStores(MaxCompanies) : Len(x) >= 2 } }

InitService ==
  /\ companies \in ServiceStores
  /\ IdleInit
  /\ input = NoInput
  /\ output = NoOutput

\* One call of delete_company: the row is removed and True is returned, or
\* the store raises, the exception is logged and raised again.
DeleteCompany ==
  /\ \E id \in 1..MaxCompanies, f \in { "ok", "delete_raise" } :
       /\ f = "ok" \/ faults < MaxFaults
       /\ faults' = IF f = "ok" THEN faults ELSE faults + 1
       /\ input' = [fn |-> "delete_company", company_id |-> id]
       /\ IF f = "ok"
            THEN /\ companies' = delete_company(companies, id)
                 /\ output' = Returned(TRUE)
            ELSE /\ companies' = companies
                 /\ output' = Raised([kind |-> "APIError"])
  /\ UNCHANGED << records, run, pc, company_url, frames, existing_company,
                  main_company_id, competitors, ci, saved_competitors,
                  competitor_ids, ri, research_results, audit, set_calls, raised,
                  swallowed, last_save, main_kind, path, prev, workers, calls,
                  savers >>

NextService == DeleteCompany

SpecService == InitService /\ [][NextService]_vars

\* ------------------------------------------------ one call of a parser

FunctionInputs ==
  { [fn |-> "parse_competitors_response", response_text |-> t] : t \in ListTexts }
    \cup { [fn |-> "parse_research_response", response_text |-> t] : t \in DataTexts }
    \cup { [fn |-> "find_competitors", request |-> r] : r \in Requests }

InitParse ==
  /\ PipelineInit
  /\ input \in FunctionInputs
  /\ output = NoOutput

ParseCompetitors ==
  /\ input.fn = "parse_competitors_response"
  /\ output = NoOutput
  /\ output' = parse_competitors_response(input.response_text)
  /\ UNCHANGED << main_vars, records, faults, workers, calls, input, savers >>

ParseResearch ==
  /\ input.fn = "parse_research_response"
  /\ output = NoOutput
  /\ output' = parse_research_response(input.response_text)
  /\ UNCHANGED << main_vars, records, faults, workers, calls, input, savers >>

\* The view answers one request.
FindCompetitors ==
  /\ input.fn = "find_competitors"
  /\ output = NoOutput
  /\ output' = Returned(find_competitors(input.request))
  /\ UNCHANGED << main_vars, records, faults, workers, calls, input, savers >>

NextParse ==
  \/ ParseCompetitors
  \/ ParseResearch
  \/ FindCompetitors

SpecParse == InitParse /\ [][NextParse]_vars

\* ------------------------------------- save_research_data, record by record

\* A number of the extracted data.
PyInt(n) == [type |-> "int", int |-> n]

ValueError == [kind |-> "ValueError"]
TypeError == [kind |-> "TypeError"]

\* The number a str of the universe spells, when it spells one.
Numerals == [ s \in { "2", "2024" } |-> IF s = "2" THEN 2 ELSE 2024 ]

\* int(x), for the values of the universe: a number is itself, a str is the
\* number it spells or ValueError, anything else TypeError.
int(x) ==
  IF x.type = "int" THEN [kind |-> "value", val |-> x.int]
  ELSE IF x.type = "str"
    THEN (IF x.str \in DOMAIN Numerals
            THEN [kind |-> "value", val |-> Numerals[x.str]]
            ELSE ValueError)
  ELSE TypeError

\* float(x); the universe holds no fractional numeral, so that float and int
\* accept the same values.
float(x) ==
  IF x.type = "int" THEN [kind |-> "value", val |-> x.int]
  ELSE IF x.type = "str"
    THEN (IF x.str \in DOMAIN Numerals
            THEN [kind |-> "value", val |-> Numerals[x.str]]
            ELSE ValueError)
  ELSE TypeError

\* str(x), for the values a source holds in the universe.
py_str(x) ==
  CASE x.type = "str" -> x.str
    [] x.type = "NoneType" -> "None"
    [] x.type = "int" -> (CASE x.int = 1 -> "1" [] x.int = 5 -> "5" [] OTHER -> "2023")

\* The members of the lists of one research_data: records complete and
\* incomplete, a record whose value is no number, and a number.
SaveItemValues ==
  { PyDict([value |-> PyInt(1), year |-> PyInt(2023), source |-> PyStr("src")]),
    PyDict([value |-> PyStr("2"), year |-> PyStr("2024"), source |-> PyStr(" src ")]),
    PyDict([value |-> PyStr("abc"), year |-> PyInt(2023), source |-> PyStr("src")]),
    PyDict([year |-> PyInt(2023), source |-> PyStr("src")]),
    PyDict([value |-> PyInt(1), source |-> PyStr("src")]),
    PyDict([value |-> PyInt(1), year |-> PyInt(2023)]),
    PyInt(5) }

\* Members of the three lists of one research_data, together.
MaxSaveItems == 3

\* What parse_research_response hands over: the three keys, each a list.
ResearchDatas ==
  UNION { UNION { { [networth |-> a, users |-> b, funding |-> c] :
                      c \in SeqsUpTo(SaveItemValues, MaxSaveItems - Len(a) - Len(b)) } :
                  b \in SeqsUpTo(SaveItemValues, MaxSaveItems - Len(a)) } :
          a \in SeqsUpTo(SaveItemValues, MaxSaveItems) }

\* The tables before the call: empty, or holding the year 2023 of the company.
StoredBefore ==
  { {},
    { [table |-> t, company_id |-> ResearchedCompany, year |-> 2023,
       value |-> 9, source |-> "old"] : t \in { "company_networth", "company_funding" } } }

\* isinstance(item, dict) and "value" in item and "year" in item and "source" in item
IsRecordItem(item) ==
  /\ item.type = "dict"
  /\ { "value", "year", "source" } \subseteq DOMAIN item.fields

\* The function on its way through the lists: the tables, the calls it has
\* made on the store, the warnings it has logged, whether it has raised.
SaveStart(recs) == [recs |-> recs, calls |-> <<>>, warnings |-> 0, raised |-> FALSE]

\* Faulty variant of record_except: the exception leaves the loop and reaches
\* the outer handler, which logs it and raises.
record_except_outer(st) == [st EXCEPT !.raised = TRUE]

\* except Exception around one record: a warning is logged and the loop goes on.
record_except(st) == [st EXCEPT !.warnings = @ + 1]

\* One pass of a loop body.  The arguments are evaluated left to right, then
\* the store is called; the call numbered in fails raises, and so does the
\* plain insert of a funding row whose year is stored.
SaveRecord(st, table, cid, item, fails) ==
  IF st.raised \/ ~IsRecordItem(item) THEN st
  ELSE LET v == IF table = "company_users" THEN int(item.fields.value)
                ELSE float(item.fields.value)
           y == int(item.fields.year)
       IN IF v.kind # "value" \/ y.kind # "value" THEN record_except(st)
          ELSE LET k == Len(st.calls) + 1
                   args == [value |-> v.val, year |-> y.val,
                            source |-> Strip(py_str(item.fields.source))]
                   refused == k \in fails
                   failed == \/ refused
                             \/ table = "company_funding"
                                  /\ HasRow(st.recs, table, cid, y.val)
                   call == [table |-> table, company_id |-> cid, value |-> args.value,
                            year |-> args.year, source |-> args.source,
                            outcome |-> IF failed THEN "raised" ELSE "row"]
                   made == [st EXCEPT !.calls = Append(@, call),
                                      !.recs = IF refused THEN @
                                               ELSE WriteOne(@, table, cid, args)]
               IN IF failed THEN record_except(made) ELSE made

RECURSIVE SaveRecords(_, _, _, _, _)
SaveRecords(st, table, cid, items, fails) ==
  IF items = <<>> THEN st
  ELSE SaveRecords(SaveRecord(st, table, cid, Head(items), fails),
                   table, cid, Tail(items), fails)

\* save_research_data with the store's calls told apart: the networth list,
\* then the users list, then the funding list.
save_research_data_calls(recs, cid, research_data, fails) ==
  LET a == SaveRecords(SaveStart(recs), "company_networth", cid,
                       research_data.networth, fails)
      b == SaveRecords(a, "company_users", cid, research_data.users, fails)
      c == SaveRecords(b, "company_funding", cid, research_data.funding, fails)
  IN IF c.raised THEN Raised(TypeError) ELSE Returned(c)

SaveInputs ==
  { [fn |-> "save_research_data", recs |-> r, research_data |-> d, fails |-> f] :
      r \in StoredBefore, d \in ResearchDatas, f \in SUBSET (1..MaxSaveItems) }

InitSave ==
  /\ PipelineInit
  /\ input \in SaveInputs
  /\ output = NoOutput

\* One call of save_research_data.
SaveResearchData ==
  /\ input.fn = "save_research_data"
  /\ output = NoOutput
  /\ output' = save_research_data_calls(input.recs, ResearchedCompany,
                                        input.research_data, input.fails)
  /\ UNCHANGED << main_vars, records, faults, workers, calls, input, savers >>

NextSave == SaveResearchData

SpecSave == InitSave /\ [][NextSave]_vars

\* ------------------------------------------------------------------- claims

\* The run is in its research loop: at the head of the loop, or suspended at
\* a status frame of an iteration.
ResearchPcs == { "research", "checking", "found_in_db", "analyzing" }

FrameIdx(types) == { i \in 1..Len(frames) : frames[i].type \in types }

IsResearchStatus(f, id, statuses) ==
  /\ f.type = "research_status"
  /\ f.competitor_id = id
  /\ f.status \in statuses

\* C1: in every run, on the cached and on the discovery path, every
\* competitor frame comes after the run's competitors_list frame; no
\* competitor frame is yielded by a run that has not yielded competitors_list.
C1_ListBeforeCompetitors ==
  \A i \in FrameIdx({"competitor"}) :
    \E j \in FrameIdx({"competitors_list"}) : j < i

\* C1 witness: a cached run, following a completed discovery run, has
\* yielded a competitor frame.
C1_Witness ==
  /\ path = "cached"
  /\ prev.complete
  /\ FrameIdx({"competitor"}) # {}

\* C2 as claimed: every competitor_research frame for c, whatever its
\* status, comes after a 'checking' status for c followed by an 'analyzing'
\* or 'found_in_db' status for c.
C2_StatusBeforeEveryResult ==
  \A i \in FrameIdx({"competitor_research"}) :
    \E j \in 1..(i - 1), k \in 1..(i - 1) :
      /\ j < k
      /\ IsResearchStatus(frames[j], frames[i].result.competitor_id, {"checking"})
      /\ IsResearchStatus(frames[k], frames[i].result.competitor_id,
                          {"analyzing", "found_in_db"})

\* C2 amended: every competitor_research frame for c directly follows c's
\* research_status frames: 'checking' then 'analyzing' or 'found_in_db' when
\* the result is success or failed; an error result follows either that pair
\* or, when the cache check itself raised, 'checking' alone.
C2_StatusBeforeResult ==
  \A i \in FrameIdx({"competitor_research"}) :
    LET r == frames[i].result
        pair == /\ i > 2
                /\ IsResearchStatus(frames[i - 2], r.competitor_id, {"checking"})
                /\ IsResearchStatus(frames[i - 1], r.competitor_id,
                                    {"analyzing", "found_in_db"})
        alone == /\ i > 1
                 /\ IsResearchStatus(frames[i - 1], r.competitor_id, {"checking"})
    IN IF r.status = "error" THEN pair \/ alone ELSE pair

\* C2 witness: an error result yielded right after 'checking', and a
\* success result yielded in the same run.
C2_Witness ==
  /\ \E i \in FrameIdx({"competitor_research"}) :
       /\ frames[i].result.status = "error"
       /\ frames[i - 1].status = "checking"
  /\ \E i \in FrameIdx({"competitor_research"}) :
       frames[i].result.status = "success"

\* The steps of a started run.
RunStep ==
  Lookup \/ LoadCached \/ AnnounceCached \/ StartCachedResearch \/ Discover
    \/ EnsureMain \/ SaveCandidate \/ SetCompetitorIds \/ ResearchChecking
    \/ ResearchAnalysis \/ ResearchCached \/ ResearchGenerate \/ Complete

\* C3: a run always has a next step until it is done; a stream holds at most
\* one terminal frame (complete or error), it is the last frame, and a run
\* that is done has yielded exactly one.
C3_OneTerminalFrame ==
  /\ Cardinality(FrameIdx({"complete", "error"})) <= 1
  /\ \A i \in FrameIdx({"complete", "error"}) : i = Len(frames) /\ pc = "done"
  /\ pc = "done" => Cardinality(FrameIdx({"complete", "error"})) = 1
  /\ pc \notin {"idle", "done"} => ENABLED RunStep

\* C3 witness: a discovery run ended by an error frame after other frames.
C3_Witness ==
  /\ pc = "done"
  /\ path = "discover"
  /\ frames[Len(frames)].type = "error"
  /\ FrameIdx({"competitors_list"}) # {}

CreateFaults == { "create_raise", "create_norow" }
UpdateFaults == { "update_raise", "update_norow" }

HasNoId(e) == "error" \in DOMAIN e /\ "id" \notin DOMAIN e
HasId(e) == "id" \in DOMAIN e /\ "error" \notin DOMAIN e

FramesOfType(t) == SelectSeq(frames, LAMBDA f : f.type = t)

NamedCandidates == SelectSeq(competitors, LAMBDA c : c.name # "")

\* The save loop of a discovery run has been entered.
InSaveLoop == path = "discover" /\ main_kind \notin {"", "raised"}

\* The run has yielded "Starting competitor research...".
ResearchAnnounced ==
  \E i \in FrameIdx({"status"}) : "total_competitors" \in DOMAIN frames[i]

\* The entries of saved_competitors whose competitor frame is out: all of
\* them, except while the cached path is announcing its rows one by one.
Announced == IF pc = "cached_rows" THEN ci - 1 ELSE Len(saved_competitors)

\* C4 as claimed: any fault met while saving a candidate (a lookup, update or
\* create that raises or returns no row) makes the candidate's entry an error
\* entry without id.
C4_AnySaveFaultIsErrorEntry ==
  (last_save.kind # "none" /\ last_save.hit # {}) =>
    /\ Len(last_save.entries) = 1
    /\ HasNoId(last_save.entries[1])

\* C4 amended: a create that raises or returns no row makes the candidate's
\* entry an error entry with the candidate's name and url and no id, and
\* leaves the store as it was; a lookup or update fault is swallowed and the
\* candidate still gets a saved entry with an id.  Either way every candidate
\* is processed, each named one has exactly one entry and one competitor
\* frame, and the run ends with complete.
C4_SaveFaultIsolated ==
  /\ last_save.kind # "none" =>
       /\ last_save.hit \cap CreateFaults # {} =>
            /\ last_save.kind = "failed"
            /\ Len(last_save.entries) = 1
            /\ HasNoId(last_save.entries[1])
            /\ last_save.entries[1].name = last_save.cand.name
            /\ last_save.entries[1].url = last_save.cand.url
            /\ last_save.after = last_save.before
       /\ (last_save.hit # {} /\ last_save.hit \cap CreateFaults = {}) =>
            /\ last_save.kind \in {"reused", "created"}
            /\ Len(last_save.entries) = 1
            /\ HasId(last_save.entries[1])
  /\ FramesOfType("competitor")
       = [i \in 1..Announced |-> CompetitorFrame(saved_competitors[i])]
  /\ (InSaveLoop /\ pc \in ResearchPcs \cup {"done"}) =>
       /\ ci = Len(competitors) + 1
       /\ Len(saved_competitors) = Len(NamedCandidates)
       /\ \A k \in 1..Len(saved_competitors) :
            HasNoId(saved_competitors[k]) =>
              /\ saved_competitors[k].name = NamedCandidates[k].name
              /\ saved_competitors[k].url = NamedCandidates[k].url
  /\ (InSaveLoop /\ pc = "done") => IsComplete(frames)

\* C4 witness: a completed run whose first candidate failed to save and
\* whose second candidate was saved.
C4_Witness ==
  /\ pc = "done"
  /\ IsComplete(frames)
  /\ Len(saved_competitors) = 2
  /\ HasNoId(saved_competitors[1])
  /\ HasId(saved_competitors[2])

\* The positions of saved_competitors the research loop visits, in order.
EligPos ==
  SelectSeq([i \in 1..Len(saved_competitors) |-> i],
            LAMBDA i : Eligible(saved_competitors[i]))

\* C5 as claimed: whenever something raises while a competitor is researched
\* (the cache check, the generation call, the extraction or a time-series
\* write), that competitor's result has status 'error'.
C5_EveryExceptionIsErrorResult ==
  \A k \in 1..Len(research_results) :
    EligPos[k] \in (raised \cup swallowed) => research_results[k].status = "error"

\* What the research loop does provide (C5 but for the write case): an
\* exception of the cache check, the generation call or the extraction yields
\* exactly one competitor_research frame, with status 'error', for that
\* competitor and no other; an exception of a time-series write is caught
\* inside save_research_data and the competitor is reported 'success'.  Every
\* eligible competitor gets exactly one result and frame, in order, and the
\* run ends with complete.
C5_ResearchFaultIsolated ==
  /\ Len(research_results) = Cardinality({ k \in 1..Len(EligPos) : EligPos[k] < ri })
       \/ pc \notin ResearchPcs \cup {"done"}
  /\ Len(research_results) <= Len(EligPos)
  /\ \A k \in 1..Len(research_results) :
       /\ research_results[k].competitor_id = saved_competitors[EligPos[k]].id
       /\ EligPos[k] \in raised <=> research_results[k].status = "error"
       /\ EligPos[k] \in swallowed => research_results[k].status = "success"
  /\ FramesOfType("competitor_research")
       = [k \in 1..Len(research_results) |-> CompetitorResearchFrame(research_results[k])]
  /\ (pc = "done" /\ ResearchAnnounced) =>
       /\ IsComplete(frames)
       /\ Len(research_results) = Len(EligPos)

\* A completed run in which the research of the first competitor
\* raised and the second competitor was researched with success.
C5_Witness ==
  /\ pc = "done"
  /\ IsComplete(frames)
  /\ raised = {1}
  /\ Len(research_results) = 2
  /\ research_results[1].status = "error"
  /\ research_results[2].status = "success"

\* C6: when the construction of a service or the initial lookup raises, the
\* run ends there: its stream is the first status frame and one error frame,
\* and it has made no generation call and no store write.
C6_SetupFailureIsTerminal ==
  [][ (pc = "lookup" /\ faults' > faults) =>
        /\ pc' = "done"
        /\ Len(frames') = 2
        /\ frames'[1].type = "status"
        /\ frames'[2].type = "error"
        /\ audit' = NoAudit
        /\ UNCHANGED << companies, records >> ]_vars

\* C6 witness: a second run, over a store that holds companies, ended by a
\* failed setup.
C6_Witness ==
  /\ pc = "done"
  /\ run = 2
  /\ path = ""
  /\ Len(companies) > 0
  /\ frames[Len(frames)].type = "error"

\* C7: on the cached path the run makes no discovery generation call and no
\* company write; once the stored rows are loaded its stream holds the
\* competitors_list frame and then one competitor frame (created = false) per
\* stored row listed by the origin, carrying the row's id, name and url.
C7_CachedPath ==
  path = "cached" =>
    /\ audit.discovery_calls = 0
    /\ audit.company_writes = 0
    /\ (pc \in ResearchPcs \/ (pc = "done" /\ IsComplete(frames))) =>
         LET ids == SeqToSet(companies[existing_company].competitor_ids)
             cf == FramesOfType("competitor")
         IN /\ ids # {}
            /\ frames[3] = [type |-> "competitors_list", total |-> Cardinality(ids)]
            /\ Len(cf) = Cardinality(ids)
            /\ \A i \in 1..Len(cf) : frames[3 + i] = cf[i]
            /\ \A id \in ids :
                 \E i \in 1..Len(cf) :
                   cf[i].competitor =
                     [id |-> id, name |-> companies[id].name,
                      url |-> IF companies[id].website_url = NoneUrl
                                THEN "" ELSE companies[id].website_url,
                      created |-> FALSE]

\* C7 witness: a completed cached run that announced two stored competitors.
C7_Witness ==
  /\ path = "cached"
  /\ pc = "done"
  /\ IsComplete(frames)
  /\ Len(saved_competitors) = 2

\* C8 as claimed: after a run for u that reached complete, the next run for
\* u makes no discovery generation call.
C8_RerunNeverDiscovers ==
  (prev.complete /\ prev.url = company_url) =>
    /\ audit.discovery_calls = 0
    /\ path # "discover"

\* The previous run completed after storing its competitor ids on its origin
\* company, which is still the row the store returns for the run's URL.
PrevStoredCompetitors ==
  /\ prev.complete
  /\ prev.set_ok
  /\ prev.found = prev.main

\* C8 amended: after a run for u that reached complete having stored a
\* non-empty competitor id list on its origin company, that company still
\* being the row the store returns for u, the next run for u (its lookup
\* returning) takes the cached path: no discovery generation call, no company
\* created or updated, and the competitors it announces are the companies
\* whose ids the earlier run stored.
C8_RerunUsesStoredCompetitors ==
  (PrevStoredCompetitors /\ prev.url = company_url /\ path # "") =>
    /\ path = "cached"
    /\ existing_company = prev.main
    /\ audit.discovery_calls = 0
    /\ audit.company_writes = 0
    /\ (pc \in ResearchPcs \/ (pc = "done" /\ IsComplete(frames))) =>
         { saved_competitors[i].id : i \in 1..Len(saved_competitors) }
           = SeqToSet(prev.ids)

\* C8 witness: such a second run, completed.
C8_Witness ==
  /\ run = 2
  /\ PrevStoredCompetitors
  /\ prev.url = company_url
  /\ pc = "done"
  /\ IsComplete(frames)
  /\ Len(saved_competitors) > 0

\* The first stored row with the given url (name), NoRow when there is none.
FirstWithUrl(store, url) ==
  IF url # "" /\ \E i \in 1..Len(store) : store[i].website_url = url
    THEN CHOOSE i \in 1..Len(store) :
           /\ store[i].website_url = url
           /\ \A j \in 1..(i - 1) : store[j].website_url # url
    ELSE NoRow

FirstWithName(store, name) ==
  IF \E i \in 1..Len(store) : store[i].name = name
    THEN CHOOSE i \in 1..Len(store) :
           /\ store[i].name = name
           /\ \A j \in 1..(i - 1) : store[j].name # name
    ELSE NoRow

\* C9 as claimed: a row is created only if no stored company has the
\* candidate's url and none its name; otherwise the matched company (the url
\* match first) is reused, ends with the candidate's name and url, and the
\* frame carries created = false; a created company's frame carries
\* created = true.
C9_CreateOnlyWhenUnmatched ==
  last_save.kind # "none" =>
    LET c == last_save.cand
        b == last_save.before
        a == last_save.after
        e == last_save.entries
        matched == IF FirstWithUrl(b, c.url) # NoRow
                     THEN FirstWithUrl(b, c.url) ELSE FirstWithName(b, c.name)
    IN /\ Len(a) > Len(b) => (matched = NoRow /\ Len(e) = 1 /\ e[1].created)
       /\ matched # NoRow =>
            /\ Len(a) = Len(b)
            /\ Len(e) = 1
            /\ HasId(e[1])
            /\ e[1].id = matched
            /\ ~e[1].created
            /\ a[matched].name = c.name
            /\ c.url # "" => a[matched].website_url = c.url

\* C9 amended: for a candidate with a non-empty name (one with an empty name
\* is skipped: no row, no entry), a row is created only if neither lookup
\* returned a row: the url lookup, made for a non-empty url, then the exact
\* name lookup, a lookup that raises counting as no row.  Otherwise the matched
\* company (the url match first) is reused and its entry carries created =
\* false; unless the update raises or returns no row, its name and, for a
\* non-empty candidate url, its url end equal to the candidate's; no other row
\* changes.  A created company's entry carries created = true.
C9_CreateOnlyWhenLookupsFindNone ==
  last_save.kind # "none" =>
    LET c == last_save.cand
        b == last_save.before
        a == last_save.after
        e == last_save.entries
        seenUrl == IF "url_lookup_raise" \in last_save.hit
                     THEN NoRow ELSE FirstWithUrl(b, c.url)
        seenName == IF seenUrl # NoRow \/ "name_lookup_raise" \in last_save.hit
                      THEN NoRow ELSE FirstWithName(b, c.name)
        matched == IF seenUrl # NoRow THEN seenUrl ELSE seenName
    IN IF c.name = ""
         THEN last_save.kind = "skipped" /\ a = b /\ e = <<>>
       ELSE
         /\ last_save.by_url = seenUrl
         /\ last_save.by_name = seenName
         /\ Len(e) = 1
         /\ matched = NoRow =>
              /\ last_save.kind \in {"created", "failed"}
              /\ last_save.kind = "failed" <=> last_save.hit \cap CreateFaults # {}
              /\ last_save.kind = "failed" => a = b
              /\ last_save.kind = "created" =>
                   /\ a = Append(b, [id |-> Len(b) + 1, name |-> c.name,
                                     website_url |-> IF c.url = "" THEN NoneUrl ELSE c.url,
                                     competitor_ids |-> <<>>])
                   /\ e[1] = [id |-> Len(b) + 1, name |-> c.name, url |-> c.url,
                              created |-> TRUE]
         /\ matched # NoRow =>
              /\ last_save.kind = "reused"
              /\ Len(a) = Len(b)
              /\ \A j \in 1..Len(b) : j # matched => a[j] = b[j]
              /\ e[1] = [id |-> matched, name |-> a[matched].name,
                         url |-> IF a[matched].website_url = NoneUrl
                                   THEN "" ELSE a[matched].website_url,
                         created |-> FALSE]
              /\ a[matched].competitor_ids = b[matched].competitor_ids
              /\ IF last_save.hit \cap UpdateFaults # {}
                   THEN a = b
                   ELSE /\ a[matched].name = c.name
                        /\ a[matched].website_url
                             = IF c.url # "" THEN c.url ELSE b[matched].website_url

\* C9 witness: a candidate whose url is stored on one company and whose name
\* on another: the url match is reused and renamed.
C9_Witness ==
  /\ last_save.kind = "reused"
  /\ last_save.hit = {}
  /\ last_save.by_url # NoRow
  /\ \E j \in 1..Len(last_save.before) :
       /\ j # last_save.by_url
       /\ last_save.before[j].name = last_save.cand.name
  /\ last_save.before[last_save.by_url].name # last_save.cand.name
  /\ last_save.after[last_save.by_url].name = last_save.cand.name

\* The ids of the entries saved without error, in candidate order.
SavedIds ==
  LET ok == SelectSeq(saved_competitors, LAMBDA c : "error" \notin DOMAIN c)
  IN [i \in 1..Len(ok) |-> ok[i].id]

DiscoveryComplete == path = "discover" /\ pc = "done" /\ IsComplete(frames)

\* C10 as claimed: in every discovery run that reaches complete the origin
\* company exists and update_company_competitor_ids was called exactly once,
\* for it, with the collected ids, whatever the list's length.
C10_SetIdsAlwaysCalled ==
  DiscoveryComplete =>
    /\ main_company_id # NoRow
    /\ Len(set_calls) = 1
    /\ set_calls[1].id = main_company_id
    /\ set_calls[1].ids = SavedIds

\* C10 amended: in every discovery run that reaches complete the origin
\* company exists unless its creation returned no row (a created origin has
\* the name derived from the url's host, the input url and no competitors);
\* competitor_ids holds the ids of the candidates saved without error, in
\* candidate order; update_company_competitor_ids was called exactly once, for
\* the origin with that list, when the origin exists and the list is not
\* empty, and was not called otherwise.
C10_SetIdsCalledOnceWhenNonEmpty ==
  /\ (path = "discover" /\ pc = "save" /\ ci = 1 /\ main_kind = "created") =>
       /\ main_company_id = Len(companies)
       /\ companies[main_company_id].website_url = company_url
       /\ company_url = AcmeUrl => companies[main_company_id].name = "Acme"
       /\ company_url = BetaUrl => companies[main_company_id].name = "Beta"
       /\ companies[main_company_id].competitor_ids = <<>>
       /\ existing_company = NoRow
  /\ InSaveLoop =>
       /\ main_company_id = NoRow <=> main_kind = "norow"
       /\ main_company_id \in 0..Len(companies)
       /\ main_kind = "kept" <=> existing_company # NoRow
       /\ main_kind = "kept" => main_company_id = existing_company
  /\ (path = "discover" /\ (pc \in ResearchPcs \/ DiscoveryComplete)) =>
       /\ InSaveLoop
       /\ competitor_ids = SavedIds
       /\ IF main_company_id # NoRow /\ SavedIds # <<>>
            THEN /\ Len(set_calls) = 1
                 /\ set_calls[1].id = main_company_id
                 /\ set_calls[1].ids = SavedIds
            ELSE set_calls = <<>>

\* C10 witness: a completed discovery run that created its origin and stored
\* two competitor ids on it.
C10_Witness ==
  /\ DiscoveryComplete
  /\ main_kind = "created"
  /\ Len(set_calls) = 1
  /\ Len(set_calls[1].ids) = 2
  /\ set_calls[1].ok
  /\ companies[main_company_id].competitor_ids = set_calls[1].ids

\* C11: a failed update_company_competitor_ids call never aborts the run: a
\* missing competitor_ids column gives the caller None without an exception,
\* and after any failed call the run announces the research loop and ends
\* with complete, the saved competitors and the stored companies being what
\* they were before the call.
C11_SetFailureNeverAborts ==
  \A k \in 1..Len(set_calls) :
    /\ set_calls[k].saved = saved_competitors
    /\ set_calls[k].outcome # "row" =>
         /\ ~set_calls[k].ok
         /\ companies = set_calls[k].before
         /\ pc \in ResearchPcs \cup {"done"}
         /\ ResearchAnnounced
         /\ FrameIdx({"error"}) = {}
         /\ pc = "done" => IsComplete(frames)

\* C11 witness: a completed run whose call met the missing column, with a
\* saved competitor researched after it.
C11_Witness ==
  /\ pc = "done"
  /\ IsComplete(frames)
  /\ Len(set_calls) = 1
  /\ set_calls[1].outcome = "none"
  /\ Len(saved_competitors) >= 1
  /\ Len(research_results) >= 1

\* The row a write of the item leaves for its key.
RowOf(item) ==
  [table |-> item.table, company_id |-> ResearchedCompany, year |-> item.year,
   value |-> item.value, source |-> item.source]

\* C12: for each of the three variants, a write for a (company, year) that
\* already has a row leaves exactly one row for the key, holding this write's
\* value and source, and returns it without raising (no fault injected).
C12_SecondWriteOverwrites ==
  faults = 0 =>
    \A c \in calls :
      c.existed =>
        /\ c.outcome = "row"
        /\ c.after = { RowOf(c.item) }

\* C12 for the two variants that handle the duplicate key: networth and users.
C12_UpsertTablesOverwrite ==
  faults = 0 =>
    \A c \in calls :
      (c.existed /\ c.item.table \in UpsertTables) =>
        /\ c.outcome = "row"
        /\ c.updated
        /\ c.after = { RowOf(c.item) }

\* A second write of a networth record with another value has replaced the
\* first one's value and source.
C12_UpsertWitness ==
  /\ faults = 0
  /\ \E c \in calls :
       /\ c.existed
       /\ c.item.table = "company_networth"
       /\ c.before # c.after
       /\ c.after = { RowOf(c.item) }

\* A call that lost the insert race: its insert met the row another worker's
\* insert had stored for the same key.
LostRace(c) ==
  /\ c.existed
  /\ \E d \in calls :
       /\ d.w # c.w
       /\ d.item.table = c.item.table
       /\ d.item.year = c.item.year
       /\ d.outcome = "row"
       /\ ~d.updated

\* C13: when two runs persist records for the same (variant, company, year),
\* under every interleaving the store holds at most one row per key, the run
\* that lost the insert race has fallen back to an update of value and
\* source, and neither run's result is other than success (no fault injected).
C13_RaceLoserUpdates ==
  faults = 0 =>
    /\ \A i \in StoreItems : Cardinality(KeyRows(records, i)) <= 1
    /\ \A w \in Workers : workers[w].result \in {"none", "success"}
    /\ \A c \in calls :
         LostRace(c) => /\ c.updated
                        /\ c.outcome = "row"
                        /\ c.after = { RowOf(c.item) }

\* C13 for the two variants that handle the duplicate key.
C13_UpsertTablesRaceLoserUpdates ==
  faults = 0 =>
    /\ \A i \in StoreItems : Cardinality(KeyRows(records, i)) <= 1
    /\ \A w \in Workers : workers[w].result \in {"none", "success"}
    /\ \A c \in calls :
         (LostRace(c) /\ c.item.table \in UpsertTables) =>
           /\ c.updated
           /\ c.outcome = "row"
           /\ c.after = { RowOf(c.item) }

\* Both runs are through, one having lost the race for a users record whose
\* value it then overwrote.
C13_UpsertRaceWitness ==
  /\ faults = 0
  /\ \A w \in Workers : workers[w].result = "success"
  /\ \E c \in calls :
       /\ LostRace(c)
       /\ c.item.table = "company_users"
       /\ c.before # c.after

UpsertCalls == { c \in calls : c.item.table \in UpsertTables }

\* C14 as claimed: the fallback update is issued only for an insert failure
\* recognised by the error code 23505 or, with no structured code, by the
\* text 'duplicate key' in the message; any other insert failure issues no
\* update, leaves the store unchanged and is raised; a failing update is
\* raised.
C14_UpdateOnlyOnCodeOrCodelessText ==
  \A c \in UpsertCalls :
    LET recognised == /\ c.err.failed
                      /\ \/ error_code(c.err) = "23505"
                         \/ error_code(c.err) = "None" /\ c.err.str_dup
    IN /\ c.updated => recognised
       /\ (c.err.failed /\ ~recognised) =>
            ~c.updated /\ c.outcome = "raised" /\ c.after = c.before
       /\ c.upd_failed => c.outcome = "raised" /\ c.after = c.before

\* C14 amended: the fallback update is issued exactly for an insert failure
\* whose error code is 23505 or whose message holds '23505' or the text
\* 'duplicate key', whether or not a structured code is available; any other
\* insert failure issues no update, leaves the store unchanged and is raised;
\* a failing update is raised; an insert that returns issues no update.
C14_UpdateOnCodeOrText ==
  \A c \in UpsertCalls :
    LET recognised == /\ c.err.failed
                      /\ \/ error_code(c.err) = "23505"
                         \/ c.err.str_23505
                         \/ c.err.str_dup
    IN /\ c.updated <=> recognised
       /\ (c.err.failed /\ ~recognised) =>
            c.outcome = "raised" /\ c.after = c.before
       /\ c.upd_failed => c.outcome = "raised" /\ c.after = c.before
       /\ ~c.err.failed => c.outcome = "row" /\ c.after = { RowOf(c.item) }

\* C14 witness: one write fell back to the update on the store's duplicate
\* key error and another raised an insert failure that is no duplicate.
C14_Witness ==
  /\ \E c \in UpsertCalls :
       c.updated /\ c.err = DuplicateKeyError /\ c.outcome = "row"
  /\ \E d \in UpsertCalls :
       d.err.failed /\ ~d.updated /\ d.outcome = "raised"

\* The last n frames of the stream.
LastFrames(n) ==
  IF Len(frames) < n THEN << >> ELSE SubSeq(frames, Len(frames) - n + 1, Len(frames))

\* C15: a research iteration for a competitor whose records are stored, the
\* cache check returning them, yields 'checking', 'found_in_db' and one
\* competitor_research frame with status success and from_cache = true whose
\* networth, users and funding are the stored rows; it makes no generation
\* call and no store write.
C15_CacheHitShortCircuits ==
  [][ /\ ( /\ pc = "checking"
           /\ faults' = faults
           /\ \E r \in records : r.company_id = saved_competitors[ri].id )
        =>
        LET comp == saved_competitors[ri]
        IN /\ LastFrames(1) = << ResearchStatusFrame(comp, "checking") >>
           /\ frames' = Append(frames, ResearchStatusFrame(comp, "found_in_db"))
           /\ pc' = "found_in_db"
           /\ records' = records
           /\ companies' = companies
           /\ audit' = audit
           /\ research_results' = research_results
      /\ pc = "found_in_db"
        =>
        LET comp == saved_competitors[ri]
            res == research_results'[Len(research_results')]
        IN /\ LastFrames(2) = << ResearchStatusFrame(comp, "checking"),
                                 ResearchStatusFrame(comp, "found_in_db") >>
           /\ Len(research_results') = Len(research_results) + 1
           /\ records' = records
           /\ companies' = companies
           /\ audit' = audit
           /\ res.competitor_id = comp.id
           /\ res.status = "success"
           /\ res.from_cache
           /\ res.networth = RowsOf(records, "company_networth", comp.id)
           /\ res.users = RowsOf(records, "company_users", comp.id)
           /\ res.funding = RowsOf(records, "company_funding", comp.id)
           /\ frames' = Append(frames, CompetitorResearchFrame(res))
           /\ pc' = "research" ]_vars

\* C15 witness: a run has reported a competitor from the records an earlier
\* run stored.
C15_Witness ==
  /\ run = 2
  /\ \E k \in 1..Len(research_results) :
       /\ research_results[k].status = "success"
       /\ research_results[k].from_cache
       /\ research_results[k].networth # {}

\* C16: a research step on a cache miss whose extraction returns None gives
\* the competitor a 'failed' result with the message "Could not parse research
\* data", writes no time-series record, yields exactly one competitor_research
\* frame (after 'checking' and 'analyzing'), and leaves the loop at the next
\* eligible competitor.
C16_NullExtractionIsFailed ==
  [][ ( /\ Len(audit'.extracted) = Len(audit.extracted) + 1
        /\ audit'.extracted[Len(audit'.extracted)].null )
      =>
      LET comp == saved_competitors[ri]
          res == research_results'[Len(research_results')]
      IN /\ Len(research_results') = Len(research_results) + 1
         /\ res = [competitor_id |-> comp.id, competitor_name |-> comp.name,
                   status |-> "failed", error |-> "Could not parse research data"]
         /\ records' = records
         /\ audit'.record_writes = audit.record_writes
         /\ pc = "analyzing"
         /\ LastFrames(2) = << ResearchStatusFrame(comp, "checking"),
                               ResearchStatusFrame(comp, "analyzing") >>
         /\ frames' = Append(frames, CompetitorResearchFrame(res))
         /\ pc' = "research"
         /\ ri' = NextEligible(saved_competitors, ri + 1) ]_vars

\* C16 witness: a completed run whose first competitor's extraction returned
\* None and whose second competitor was researched with success.
C16_Witness ==
  /\ pc = "done"
  /\ IsComplete(frames)
  /\ Len(research_results) = 2
  /\ Len(audit.extracted) = 2
  /\ audit.extracted[1].null
  /\ research_results[1].status = "failed"
  /\ research_results[2].status = "success"

\* C17: when a time-series write raises while a competitor's research is
\* persisted, the competitor's research_results entry and its
\* competitor_research frame carry an error instead of status success.
C17_WriteFaultIsErrorTagged ==
  \A k \in 1..Len(research_results) :
    EligPos[k] \in swallowed =>
      /\ research_results[k].status # "success"
      /\ "error" \in DOMAIN research_results[k]
      /\ FramesOfType("competitor_research")[k].result.status # "success"

\* The results that come from a generation call: every result but a cache
\* hit and an exception of the cache check.
GeneratedResults ==
  { k \in 1..Len(research_results) :
      /\ ~(research_results[k].status = "success" /\ research_results[k].from_cache)
      /\ ~(research_results[k].status = "error"
             /\ research_results[k].error = "get_company_analysis raised") }

\* C18: a run calls the generation capability at most once for discovery and
\* exactly once for each competitor researched on a cache miss, whether the
\* call returns, raises or returns what cannot be parsed; a discovery call
\* that fails ends the run with an error frame and no further call, a
\* research call that raises gives that competitor an 'error' result.
C18_NoRetry ==
  /\ audit.discovery_calls <= 1
  /\ audit.discovery_calls = 1 <=> (path = "discover" /\ pc # "discover")
  /\ audit.research_calls = Cardinality(GeneratedResults)
  /\ \A k \in 1..Len(research_results) :
       EligPos[k] \in raised => research_results[k].status = "error"
  /\ (pc = "done" /\ path = "discover" /\ FrameIdx({"competitors_list"}) = {}) =>
       /\ frames[Len(frames)].type = "error"
       /\ Len(frames) = 3
       /\ audit.research_calls = 0

\* C18 witness: a completed run whose research call for the first competitor
\* raised and whose second competitor was researched after it.
C18_Witness ==
  /\ pc = "done"
  /\ IsComplete(frames)
  /\ audit.discovery_calls = 1
  /\ audit.research_calls = 2
  /\ Len(research_results) = 2
  /\ research_results[1].status = "error"
  /\ research_results[1].error = "get_text_completion raised"

\* The entries of saved_competitors saved without error and with a URL, in
\* order.
ResearchablePos ==
  SelectSeq([i \in 1..Len(saved_competitors) |-> i],
            LAMBDA i : /\ "error" \notin DOMAIN saved_competitors[i]
                       /\ saved_competitors[i].url # "")

CheckingFrameSeq ==
  SelectSeq(frames, LAMBDA f : f.type = "research_status" /\ f.status = "checking")

\* C19: in a run that reached complete, research_results holds one entry for
\* each competitor entry saved without error and with a URL, and no other, in
\* the order of the competitor frames; the competitor_research frames are
\* these entries, one each, and each research_status frame belongs to one of
\* them: an entry with an error or without a URL gets none.
C19_ResearchExactlySavedWithUrl ==
  (pc = "done" /\ IsComplete(frames)) =>
    /\ saved_competitors
         = [i \in 1..Len(FramesOfType("competitor")) |->
              FramesOfType("competitor")[i].competitor]
    /\ Len(research_results) = Len(ResearchablePos)
    /\ \A k \in 1..Len(research_results) :
         /\ research_results[k].competitor_id = saved_competitors[ResearchablePos[k]].id
         /\ research_results[k].competitor_name = saved_competitors[ResearchablePos[k]].name
    /\ FramesOfType("competitor_research")
         = [k \in 1..Len(research_results) |-> CompetitorResearchFrame(research_results[k])]
    /\ CheckingFrameSeq
         = [k \in 1..Len(ResearchablePos) |->
              ResearchStatusFrame(saved_competitors[ResearchablePos[k]], "checking")]
    /\ \A i \in FrameIdx({"research_status"}) :
         \E k \in 1..Len(ResearchablePos) :
           /\ frames[i].competitor_id = saved_competitors[ResearchablePos[k]].id
           /\ frames[i].competitor_name = saved_competitors[ResearchablePos[k]].name
    /\ frames[Len(frames)].research_results = research_results

\* C19 witness: a completed run that saved two entries, one of them without
\* a URL, and researched exactly the other.
C19_Witness ==
  /\ pc = "done"
  /\ IsComplete(frames)
  /\ Len(saved_competitors) = 2
  /\ \E i \in 1..2 : "error" \notin DOMAIN saved_competitors[i]
                       /\ saved_competitors[i].url = ""
  /\ Len(research_results) = 1

\* C20: in every complete frame total_found is the number of competitor
\* frames of the run, total_saved the number of those that carry an id and
\* no error, and total_saved <= total_found.
C20_CompleteTotals ==
  \A i \in FrameIdx({"complete"}) :
    LET cf == FramesOfType("competitor")
    IN /\ frames[i].total_found = Len(cf)
       /\ frames[i].total_saved
            = Cardinality({ j \in 1..Len(cf) :
                              /\ "id" \in DOMAIN cf[j].competitor
                              /\ "error" \notin DOMAIN cf[j].competitor })
       /\ frames[i].total_saved <= frames[i].total_found

\* C20 witness: a complete frame counting two competitor frames, one of them
\* an error entry.
C20_Witness ==
  /\ pc = "done"
  /\ IsComplete(frames)
  /\ frames[Len(frames)].total_found = 2
  /\ frames[Len(frames)].total_saved = 1

FrameTypes == [i \in 1..Len(frames) |-> frames[i].type]

\* A finished fault-free discovery run for an input URL that was not stored,
\* whose generation output parsed to one competitor with a name and a URL.
OneCompetitorRun ==
  /\ pc = "done"
  /\ faults = 0
  /\ path = "discover"
  /\ existing_company = NoRow
  /\ main_kind = "created"
  /\ Len(competitors) = 1
  /\ competitors[1].name # ""
  /\ competitors[1].url # ""

\* C21 as claimed: such a run yields exactly the eight frames status,
\* competitors_list, competitor, status, research_status, research_status,
\* competitor_research, complete, the competitor being created and its
\* research a success that did not come from the store.
C21_EightFrames ==
  OneCompetitorRun =>
    /\ FrameTypes = << "status", "competitors_list", "competitor", "status",
                       "research_status", "research_status",
                       "competitor_research", "complete" >>
    /\ frames[3].competitor.created
    /\ frames[7].result.status = "success"

\* C21: when, besides, no stored Company matched the competitor by URL or by
\* name and no research output failed to parse, the run has created
\* the origin Company and the competitor Company, has set the origin's
\* competitor ids to the competitor's id alone, and has yielded exactly:
\* status (checking the database), status (company not found),
\* competitors_list{total:1}, competitor{created:true}, status (starting
\* research), research_status{checking}, research_status{analyzing},
\* competitor_research{success, from_cache:false},
\* complete{total_found:1, total_saved:1}.
C21_EndToEnd ==
  ( /\ OneCompetitorRun
    /\ last_save.by_url = NoRow /\ last_save.by_name = NoRow
    /\ \A k \in 1..Len(audit.extracted) : ~audit.extracted[k].null )
  =>
    LET cand == competitors[1]
        origin == main_company_id
        comp == frames[4].competitor
    IN /\ FrameTypes = << "status", "status", "competitors_list", "competitor",
                          "status", "research_status", "research_status",
                          "competitor_research", "complete" >>
       /\ frames[3].total = 1
       /\ comp.created /\ comp.name = cand.name /\ comp.url = cand.url
       /\ frames[6].status = "checking" /\ frames[6].competitor_id = comp.id
       /\ frames[7].status = "analyzing" /\ frames[7].competitor_id = comp.id
       /\ frames[8].result.status = "success"
       /\ frames[8].result.from_cache = FALSE
       /\ frames[8].result.competitor_id = comp.id
       /\ frames[9].total_found = 1 /\ frames[9].total_saved = 1
       /\ origin # NoRow /\ comp.id # origin
       /\ companies[origin].website_url = company_url
       /\ companies[origin].name = CompanyNameFromUrl(company_url)
       /\ companies[origin].competitor_ids = << comp.id >>
       /\ companies[comp.id].name = cand.name
       /\ companies[comp.id].website_url = cand.url
       /\ last_save.kind = "created"
       /\ Len(companies) = Len(last_save.before) + 1
       /\ audit.discovery_calls = 1 /\ audit.research_calls = 1

\* C21 witness: the scenario has run to its complete frame, the origin and
\* the competitor both newly created.
C21_Witness ==
  /\ OneCompetitorRun
  /\ last_save.by_url = NoRow /\ last_save.by_name = NoRow
  /\ audit.extracted = << [pos |-> 1, null |-> FALSE] >>
  /\ IsComplete(frames)
  /\ Len(companies) = 2

\* The discovery output of the run parsed to the empty list: the parse has
\* returned and the origin company is being, or has been, ensured.
EmptyDiscovery ==
  /\ path = "discover"
  /\ competitors = <<>>
  /\ pc = "ensure_main" \/ main_kind # ""

\* What every run with an empty discovery parse shows: competitors_list with
\* total 0, no competitor, research_status or competitor_research frame, no
\* research generation call.
EmptyDiscoveryStream ==
  /\ \E i \in FrameIdx({"competitors_list"}) : frames[i].total = 0
  /\ FrameIdx({"competitor", "research_status", "competitor_research"}) = {}
  /\ audit.research_calls = 0
  /\ audit.discovery_calls = 1

\* C22 as claimed: such a run, whatever else happens, ends with a complete
\* frame with total_found 0, never with an error frame.
C22_EmptyParseAlwaysCompletes ==
  EmptyDiscovery =>
    /\ EmptyDiscoveryStream
    /\ pc = "done" =>
         /\ IsComplete(frames)
         /\ frames[Len(frames)].total_found = 0

\* C22: a run whose discovery output parses to no competitor yields
\* competitors_list with total 0, no competitor, research_status or
\* competitor_research frame, makes no research generation call and stores
\* no competitor ids; it ends with a complete frame with total_found 0,
\* total_saved 0 and no research result, unless looking up or creating the
\* origin company raised, in which case it ends with an error frame.
C22_EmptyParseCompletes ==
  EmptyDiscovery =>
    /\ EmptyDiscoveryStream
    /\ set_calls = <<>>
    /\ saved_competitors = <<>>
    /\ pc = "done" =>
         IF main_kind = "raised"
           THEN /\ frames[Len(frames)].type = "error"
                /\ FrameIdx({"complete"}) = {}
           ELSE /\ IsComplete(frames)
                /\ frames[Len(frames)].total_found = 0
                /\ frames[Len(frames)].total_saved = 0
                /\ frames[Len(frames)].research_results = <<>>
                /\ FrameIdx({"error"}) = {}

\* C22 witness: a run with an empty discovery parse has reached its complete
\* frame.
C22_Witness ==
  /\ EmptyDiscovery
  /\ pc = "done"
  /\ IsComplete(frames)
  /\ frames[Len(frames)].total_found = 0

\* The call of parse_competitors_response has returned or raised.
CompetitorsParsed ==
  input.fn = "parse_competitors_response" /\ output # NoOutput

\* The places of the response text that hold a valid JSON array.
ArraysIn(t) ==
  { p \in (1..Len(t)) \X (1..Len(t)) :
      /\ p[1] < p[2]
      /\ t[p[1]] = "[" /\ t[p[2]] = "]"
      /\ json_loads(SubSeq(t, p[1], p[2])).kind = "value" }

ItemsAt(t, p) == json_loads(SubSeq(t, p[1], p[2])).val.items

\* Those whose elements are all objects with a name and a url.
ObjectArraysIn(t) ==
  { p \in ArraysIn(t) :
      \A k \in 1..Len(ItemsAt(t, p)) :
        /\ ItemsAt(t, p)[k].type = "dict"
        /\ { "name", "url" } \subseteq DOMAIN ItemsAt(t, p)[k].fields }

\* The objects of such an array, name and url trimmed, in source order.
TrimmedObjects(t, p) ==
  [k \in 1..Len(ItemsAt(t, p)) |->
     [name |-> Strip(ItemsAt(t, p)[k].fields.name),
      url |-> Strip(ItemsAt(t, p)[k].fields.url)]]

\* C23 as claimed: for a response text that holds one valid JSON array of
\* {name, url} objects, whatever surrounds it, parse_competitors_response
\* returns exactly those objects, name and url trimmed, in source order.
C23_ReturnsTheArray ==
  CompetitorsParsed =>
    \A p \in ObjectArraysIn(input.response_text) :
      ObjectArraysIn(input.response_text) = { p } =>
        output = Returned(TrimmedObjects(input.response_text, p))

\* C24 as claimed: for a response text that holds no valid JSON array
\* anywhere, parse_competitors_response returns the empty list and does not
\* raise.
C24_NoArrayGivesEmpty ==
  ( CompetitorsParsed /\ ArraysIn(input.response_text) = {} ) =>
    output = Returned(<<>>)

\* The call of parse_research_response has returned or raised.
ResearchParsed ==
  input.fn = "parse_research_response" /\ output # NoOutput

\* The object tokens whose networth, users and funding fields, in any key
\* casing, are all sequences, and the mapping each one holds.
SequenceObjects == { "data", "data_caps" }

SequenceObjectsIn(t) == { k \in 1..Len(t) : t[k] \in SequenceObjects }

MappingOf(tok) ==
  IF tok = "data"
    THEN [parsed |-> TRUE, networth |-> << Item2023 >>, users |-> <<>>, funding |-> <<>>]
    ELSE [parsed |-> TRUE, networth |-> <<>>, users |-> << Item2023 >>, funding |-> <<>>]

\* C25 as claimed: for a response text that holds one JSON object whose
\* networth, users and funding fields are sequences, whatever surrounds it,
\* parse_research_response returns the mapping of the three keys to that
\* object's fields, a missing one being the empty sequence.
C25_ReturnsTheObject ==
  ResearchParsed =>
    \A k \in SequenceObjectsIn(input.response_text) :
      SequenceObjectsIn(input.response_text) = { k } =>
        output = Returned(MappingOf(input.response_text[k]))

\* The JSON objects anywhere in the text: the runs of pieces json.loads
\* accepts.
JsonObjectsIn(c) ==
  { p \in (1..Len(c)) \X (1..Len(c)) :
      /\ p[1] < p[2]
      /\ c[p[1]] = "{" /\ c[p[2]] = "}"
      /\ json_loads_object(SubSeq(c, p[1], p[2])).kind = "value" }

PairsAt(c, p) == json_loads_object(SubSeq(c, p[1], p[2])).pairs

\* Each of networth, users, funding resolves to a sequence in the object.
AllSequences(pairs) ==
  \A key \in { "networth", "users", "funding" } :
    ResolveKey(pairs, key).type = "list"

\* C26: parse_research_response does not raise; a result other than null
\* binds exactly networth, users and funding, to the sequences these keys
\* resolve to in a JSON object of the text in which all three resolve to
\* sequences; when every JSON object of the text has one of them resolving to
\* a scalar or an object, fenced or not, the result is null.
C26_NonSequenceRejected ==
  ResearchParsed =>
    LET c == PiecesOf(input.response_text)
    IN /\ output.state = "returned"
       /\ output.value.parsed =>
            /\ DOMAIN output.value = { "parsed", "networth", "users", "funding" }
            /\ \E p \in JsonObjectsIn(c) :
                 /\ AllSequences(PairsAt(c, p))
                 /\ output.value.networth = ResolveKey(PairsAt(c, p), "networth").items
                 /\ output.value.users = ResolveKey(PairsAt(c, p), "users").items
                 /\ output.value.funding = ResolveKey(PairsAt(c, p), "funding").items
       /\ (\A p \in JsonObjectsIn(c) : ~AllSequences(PairsAt(c, p)))
            => output = Returned(NoData)

\* C26 witness: a fenced object whose networth is a number, with nothing else
\* that is JSON in the text, was rejected by every strategy: the result is
\* null.
C26_Witness ==
  /\ ResearchParsed
  /\ input.response_text = << "fence", "json", "scalar", "fence" >>
  /\ output = Returned(NoData)

\* find_competitors has answered a request.
RequestAnswered == input.fn = "find_competitors" /\ output.state = "returned"

\* The request names no company URL: a GET without a "url" parameter or with
\* an empty one; a POST whose body is anything but a JSON object with a
\* non-empty string under "url".
NoCompanyUrl(request) ==
  IF request.method = "GET"
    THEN \/ "url" \notin DOMAIN request.GET
         \/ request.GET["url"].str = ""
  ELSE ~ \E tok \in BodyObjectTokens :
           /\ request.body = << tok >>
           /\ "url" \in DOMAIN BodyObjectOf(tok)
           /\ BodyObjectOf(tok)["url"].type = "str"
           /\ BodyObjectOf(tok)["url"].str # ""

\* C27: a request that names no company URL (missing, empty, or a POST body of
\* any shape from which it cannot be read) is answered with a non-streaming
\* 400 response whose JSON body has an "error" field, and the generator of the
\* pipeline is not created.
C27_NoUrlGets400 ==
  (RequestAnswered /\ NoCompanyUrl(input.request))
    => /\ ~output.value.streaming
       /\ output.value.status = 400
       /\ "error" \in output.value.fields

\* The tags of the ProgressEvent union, and the statuses of its progress and
\* result payloads.
EventTypes ==
  { "status", "competitors_list", "competitor", "research_status",
    "competitor_research", "complete", "error" }
ResearchSteps == { "checking", "analyzing", "found_in_db" }
ResultStatuses == { "success", "failed", "error" }

\* C28: every frame of the stream is one push event: the prefix "data: ", one
\* JSON object whose "type" is one of the seven event kinds, and a blank-line
\* terminator; a research_status payload carries one of the three steps and a
\* competitor_research payload a result whose status is success, failed or
\* error.
C28_FramesArePushEvents ==
  \A i \in 1..Len(frames) :
    LET ev == PushEvent(frames[i])
    IN /\ ev.prefix = "data: "
       /\ ev.terminator = "\n\n"
       /\ "type" \in DOMAIN ev.json
       /\ ev.json.type \in EventTypes
       /\ ev.json.type = "research_status" => ev.json.status \in ResearchSteps
       /\ ev.json.type = "competitor_research"
            => ev.json.result.status \in ResultStatuses

\* A finished stream with all six kinds of a successful run, both outcomes of
\* the store check, and a result that is not a success.
C28_Witness ==
  /\ { frames[i].type : i \in 1..Len(frames) } = EventTypes \ { "error" }
  /\ \E i \in 1..Len(frames) :
       frames[i].type = "research_status" /\ frames[i].status = "found_in_db"
  /\ \E i \in 1..Len(frames) :
       frames[i].type = "research_status" /\ frames[i].status = "analyzing"
  /\ \E i \in 1..Len(frames) :
       frames[i].type = "competitor_research" /\ frames[i].result.status # "success"

\* No row of the store is removed by a step: the companies keep their
\* positions and every (table, company, year) that has a row keeps one.
NothingDeleted ==
  /\ Len(companies') >= Len(companies)
  /\ \A i \in 1..Len(companies) : companies'[i].id = companies[i].id
  /\ \A r \in records : HasRow(records', r.table, r.company_id, r.year)

\* C29: when the consumer abandons the generator after a frame, the run
\* issues no store write and no generation call from then on, the writes
\* issued before stay in the store (nothing is rolled back), and no step of
\* the pipeline deletes a company or a record.
C29_AbandonedRunIsInert ==
  [][ /\ (pc # "abandoned" /\ pc' = "abandoned")
          => /\ companies' = companies
             /\ records' = records
             /\ audit' = audit
      /\ pc = "abandoned"
          => /\ companies' = companies
             /\ records' = records
             /\ run' = run + 1
      /\ NothingDeleted ]_vars

\* The stream was abandoned after the 'analyzing' frame of a competitor the
\* run had created: the company writes were issued, the research call was not.
C29_Witness ==
  /\ pc = "abandoned"
  /\ audit.company_writes > 0
  /\ audit.research_calls = 0
  /\ frames[Len(frames)].type = "research_status"
  /\ frames[Len(frames)].status = "analyzing"
  /\ \E i \in 1..Len(saved_competitors) : saved_competitors[i].id = Len(companies)

\* The frames of the research loop, and the competitor a frame is about.
ResearchFrameIdx == FrameIdx({"research_status", "competitor_research"})

AboutOf(fr) ==
  IF fr.type = "research_status"
    THEN [id |-> fr.competitor_id, name |-> fr.competitor_name]
    ELSE [id |-> fr.result.competitor_id, name |-> fr.result.competitor_name]

IsStep(fr, steps) == fr.type = "research_status" /\ fr.status \in steps

\* Each frame of the research loop sits in a block of consecutive frames
\* about one competitor: 'checking', then at most one of 'analyzing' and
\* 'found_in_db', then the result.
InBlocks(fr) ==
  \A i \in { k \in 1..Len(fr) : fr[k].type \in {"research_status", "competitor_research"} } :
    /\ IsStep(fr[i], {"checking"})
         => /\ i < Len(fr)
            /\ \/ IsStep(fr[i + 1], {"analyzing", "found_in_db"})
               \/ fr[i + 1].type = "competitor_research"
            /\ AboutOf(fr[i + 1]) = AboutOf(fr[i])
    /\ IsStep(fr[i], {"analyzing", "found_in_db"})
         => /\ i > 1 /\ i < Len(fr)
            /\ IsStep(fr[i - 1], {"checking"})
            /\ fr[i + 1].type = "competitor_research"
            /\ AboutOf(fr[i + 1]) = AboutOf(fr[i])
    /\ fr[i].type = "competitor_research"
         => /\ i > 1
            /\ fr[i - 1].type = "research_status"
            /\ AboutOf(fr[i - 1]) = AboutOf(fr[i])

\* The frames of the iteration the run is inside of: none at the head of the
\* loop, the 'checking' frame after the first yield of an iteration, and the
\* second status frame too after its second yield.
OpenBlock ==
  CASE pc = "checking" -> 1
    [] pc \in { "found_in_db", "analyzing" } -> 2
    [] OTHER -> 0

\* The frames before the iteration the run is inside of are whole blocks,
\* and the frames of that iteration are the status frames of its competitor.
BlocksThenOpen ==
  /\ Len(frames) >= OpenBlock
  /\ InBlocks(SubSeq(frames, 1, Len(frames) - OpenBlock))
  /\ OpenBlock >= 1
       => /\ IsStep(frames[Len(frames) - OpenBlock + 1], {"checking"})
          /\ \A k \in (Len(frames) - OpenBlock + 1)..Len(frames) :
               AboutOf(frames[k]) = [id |-> saved_competitors[ri].id,
                                     name |-> saved_competitors[ri].name]
  /\ OpenBlock = 2 => IsStep(frames[Len(frames)], {pc})

\* C30: research proceeds one competitor at a time.  In every state the
\* frames of the research loop are consecutive blocks, one per researched
\* competitor (its 'checking' frame, its 'analyzing' or 'found_in_db' frame
\* when the store check returns, its result), with no frame of another
\* competitor inside a block, the last block being open while the run is
\* inside an iteration; and a step that writes a record, issues a research
\* call or adds a result is taken inside the open block of one competitor
\* and closes it with the result of that competitor, so the calls of a
\* competitor are over when the next 'checking' frame is yielded.
C30_OneCompetitorAtATime ==
  [][ /\ BlocksThenOpen'
      /\ (run' = run /\ (records' # records
                          \/ audit'.research_calls # audit.research_calls
                          \/ research_results' # research_results))
           => /\ OpenBlock >= 1
              /\ OpenBlock' = 0
              /\ Len(frames') = Len(frames) + 1
              /\ SubSeq(frames', 1, Len(frames)) = frames
              /\ frames'[Len(frames')].type = "competitor_research"
              /\ AboutOf(frames'[Len(frames')]) = AboutOf(frames[Len(frames)])
              /\ research_results'
                   = Append(research_results, frames'[Len(frames')].result)
      /\ (run' = run /\ OpenBlock >= 1 /\ OpenBlock' = 0)
           => research_results' # research_results ]_vars

\* A finished run that researched two different competitors, one answered
\* from the store and one by a generation call that wrote records.
C30_Witness ==
  /\ pc = "done"
  /\ IsComplete(frames)
  /\ \E i, j \in ResearchFrameIdx :
       /\ i < j
       /\ IsStep(frames[i], {"found_in_db"})
       /\ IsStep(frames[j], {"analyzing"})
       /\ AboutOf(frames[i]).id # AboutOf(frames[j]).id
  /\ audit.record_writes > 0

\* C31 as claimed: every entry parse_competitors_response returns has a
\* non-empty trimmed name and a non-empty trimmed url; elements that are not
\* objects, that lack name or url, or whose name or url is blank are dropped.
C31_EntriesNonEmpty ==
  ( CompetitorsParsed /\ output.state = "returned" ) =>
    \A k \in 1..Len(output.value) :
      /\ output.value[k].name # ""
      /\ output.value[k].url # ""

\* The object holds none of networth, users, funding, in any casing.
HoldsNoResearchKey(pairs) ==
  \A k \in 1..Len(pairs) : Lower(pairs[k].key) \notin { "networth", "users", "funding" }

\* C32 as claimed: a JSON object is accepted only if it holds at least one of
\* the keys networth, users, funding in some casing; for a text whose only
\* JSON object holds none of them, parse_research_response returns null.
C32_KeylessObjectGivesNull ==
  ResearchParsed =>
    LET c == PiecesOf(input.response_text)
    IN \A p \in JsonObjectsIn(c) :
         ( JsonObjectsIn(c) = { p } /\ HoldsNoResearchKey(PairsAt(c, p)) )
           => output = Returned(NoData)

\* The competitor frames of the run so far.
CompetitorFrameCount == Len(FramesOfType("competitor"))

\* C33 as claimed: in every finished run that announced its competitors, the
\* number of competitor frames equals the announced total.
C33_FramesMatchAnnounced ==
  pc = "done" =>
    \A i \in FrameIdx({"competitors_list"}) :
      CompetitorFrameCount = frames[i].total

\* C33: a run announces its competitors at most once and never yields more
\* competitor frames than announced.  On the cached path the competitor
\* frames are as many as announced.  On the discovery path the total is the
\* length of the parsed list; once the save loop is over the competitor
\* frames are as many as the candidates with a non-empty name, each of them
\* having one frame and a candidate with an empty name none; a run whose
\* origin lookup or creation raised after the announcement has none.
C33_FramesMatchNamed ==
  /\ Cardinality(FrameIdx({"competitors_list"})) <= 1
  /\ \A i \in FrameIdx({"competitors_list"}) :
       /\ CompetitorFrameCount <= frames[i].total
       /\ (path = "cached" /\ pc \in ResearchPcs \cup {"done"})
            => CompetitorFrameCount = frames[i].total
       /\ path = "discover" => frames[i].total = Len(competitors)
       /\ (InSaveLoop /\ pc \in ResearchPcs \cup {"done"})
            => CompetitorFrameCount = Len(NamedCandidates)
       /\ (path = "discover" /\ main_kind = "raised") => CompetitorFrameCount = 0

\* A finished discovery run that announced two candidates, one of them with
\* an empty name, and yielded one competitor frame.
C33_Witness ==
  /\ DiscoveryComplete
  /\ \E i \in FrameIdx({"competitors_list"}) : frames[i].total = 2
  /\ \E k \in 1..Len(competitors) : competitors[k].name = ""
  /\ CompetitorFrameCount = 1

\* No two rows of the companies table hold the same website URL.
UrlsAreUnique ==
  \A i, j \in 1..Len(companies) :
    (i # j /\ companies[i].website_url # NoneUrl)
      => companies[i].website_url # companies[j].website_url

\* C34 as claimed: whatever runs overlap on the store, no two Company rows
\* have the same non-empty website URL.
C34_NoDuplicateUrl == UrlsAreUnique

\* A sequence without repetitions.
IsOrderedSet(ids) == \A i, j \in 1..Len(ids) : i # j => ids[i] # ids[j]

\* C35 as claimed: the id list a discovery run passes to
\* update_company_competitor_ids holds no company id more than once.
C35_IdsAreOrderedSet ==
  \A k \in 1..Len(set_calls) : IsOrderedSet(set_calls[k].ids)

\* C36 as claimed: the id list a discovery run passes to
\* update_company_competitor_ids does not hold the id of the origin company,
\* and no iteration of the save loop changes the origin company's name.
C36_OriginNotItsCompetitor ==
  /\ \A k \in 1..Len(set_calls) :
       \A i \in 1..Len(set_calls[k].ids) : set_calls[k].ids[i] # set_calls[k].id
  /\ (last_save.kind # "none" /\ main_company_id # NoRow)
       => last_save.after[main_company_id].name = last_save.before[main_company_id].name

\* A step in which the discovery generation call, or the lookup or creation
\* of the origin company, throws: the run is in its discovery phase and meets
\* a fault other than a creation that returns no row.
DiscoveryFaultStep ==
  /\ run' = run
  /\ faults' > faults
  /\ \/ pc = "discover"
     \/ pc = "ensure_main" /\ main_kind' # "norow"

\* C37: a fault in discovery outside the per-candidate save is terminal for
\* the run.  The step in which it occurs ends the run with one error frame,
\* the only terminal frame of the stream; no candidate has been or is saved,
\* no competitor ids are stored, the research loop is not entered, and the
\* only step after it is the next request.
C37_DiscoveryFaultIsTerminal ==
  [][ /\ DiscoveryFaultStep
          => /\ pc' = "done"
             /\ Len(frames') = Len(frames) + 1
             /\ SubSeq(frames', 1, Len(frames)) = frames
             /\ frames'[Len(frames')].type = "error"
             /\ \A i \in 1..Len(frames) :
                  frames[i].type \notin { "error", "complete", "competitor",
                                          "research_status", "competitor_research" }
             /\ \A i \in 1..Len(frames) : "total_competitors" \notin DOMAIN frames[i]
             /\ companies' = companies
             /\ records' = records
             /\ saved_competitors' = <<>>
             /\ competitor_ids' = <<>>
             /\ set_calls' = <<>>
             /\ research_results' = <<>>
             /\ audit'.research_calls = 0
      /\ (pc = "done" /\ main_kind = "raised") => run' = run + 1 ]_vars

\* A run ended by a failed creation of its origin company after it had
\* announced two candidates.
C37_Witness ==
  /\ pc = "done"
  /\ main_kind = "raised"
  /\ audit.company_writes = 1
  /\ Len(competitors) = 2
  /\ frames[Len(frames)].type = "error"
  /\ saved_competitors = <<>>

\* The records of a list that reach the store: complete, with a value and a
\* year that are numbers.
ReachesStore(item, table) ==
  /\ IsRecordItem(item)
  /\ int(item.fields.year).kind = "value"
  /\ (IF table = "company_users" THEN int(item.fields.value)
      ELSE float(item.fields.value)).kind = "value"

WrittenFrom(items, table) ==
  LET keep(item) == ReachesStore(item, table)
      kept == SelectSeq(items, keep)
  IN [i \in 1..Len(kept) |->
        [table |-> table,
         value |-> (IF table = "company_users" THEN int(kept[i].fields.value)
                    ELSE float(kept[i].fields.value)).val,
         year |-> int(kept[i].fields.year).val]]

\* The store calls one research_data asks for, in the claimed order.
ExpectedWrites(d) ==
  WrittenFrom(d.networth, "company_networth")
    \o WrittenFrom(d.users, "company_users")
    \o WrittenFrom(d.funding, "company_funding")

\* C38: one save_research_data call writes the networth records, then the
\* users records, then the funding records, each list in its order; a member
\* that is not an object or lacks value, year or source causes no call; a
\* call that fails is logged, every later record of the same and of the later
\* lists is still written, the successful writes are stored, and the function
\* returns to its caller.
C38_WritesInOrderFailuresSkipped ==
  (input.fn = "save_research_data" /\ output # NoOutput)
    => /\ output.state = "returned"
       /\ LET st == output.value
              want == ExpectedWrites(input.research_data)
          IN /\ Len(st.calls) = Len(want)
             /\ \A k \in 1..Len(want) :
                  /\ st.calls[k].table = want[k].table
                  /\ st.calls[k].value = want[k].value
                  /\ st.calls[k].year = want[k].year
                  /\ st.calls[k].company_id = ResearchedCompany
                  /\ (k \in input.fails) => st.calls[k].outcome = "raised"
                  /\ st.calls[k].outcome = "row"
                       => HasRow(st.recs, want[k].table, ResearchedCompany, want[k].year)
             /\ \A r \in st.recs :
                  r \in input.recs
                    \/ \E k \in 1..Len(want) :
                         /\ k \notin input.fails
                         /\ r.table = want[k].table
                         /\ r.year = want[k].year

\* A call whose first write is refused by the store, whose lists hold a member
\* that is no record, and whose two later records, a users record after the
\* networth record, are stored.
C38_Witness ==
  /\ input.fn = "save_research_data"
  /\ output # NoOutput
  /\ output.state = "returned"
  /\ input.fails = {1}
  /\ Len(input.research_data.networth) = 1
  /\ Len(input.research_data.users) = 2
  /\ \E i \in 1..2 : ~IsRecordItem(input.research_data.users[i])
  /\ Len(output.value.calls) = 2
  /\ output.value.calls[1].outcome = "raised"
  /\ output.value.calls[2].outcome = "row"
  /\ output.value.calls[2].table = "company_users"
  /\ \E r \in output.value.recs : r.table = "company_users"

=============================================================================
